---- MODULE Spec2Model ----
(***************************************************************************)
(* Workspace orchestrator of universal-contributor: POST /workspaces/spawn, *)
(* the background runner executeOpenCodeInBackground and                    *)
(* POST /workspaces/:id/destroy (apps/db-api/src/routes/workspaces.ts),     *)
(* the container daemon they talk to (packages/shared/src/docker/index.ts)  *)
(* and the web UI flows that call them (apps/web/src/routes/issues.tsx).    *)
(*                                                                         *)
(* The db-api server is one single-threaded process: a handler runs without *)
(* interruption between two awaits, so every action below is the code       *)
(* between two awaits (or one daemon-side event).                           *)
(***************************************************************************)
EXTENDS Integers, Sequences, FiniteSets, TLC

\* ---------------------------------------------------------------- bounds
\* number of spawn requests in a run with every operation (Spec)
MaxWs == 1
\* number of spawn requests in a run of spawns and runners alone (RerunSpec)
MaxReruns == 2
\* rows of the webhooks table
MaxWebhooks == 1
\* number of issue rows
NumIssues == 1
\* last value of the clock (seconds resolution of datetime('now'))
MaxClock == 3
\* agent output lines one exec commits to workspace_logs
MaxLines == 1
\* largest timeout_minutes of a spawn request, in clock ticks
MaxTimeout == 1
\* lines of an issue body
MaxBodyLines == 2
\* frames of one exec output stream
MaxFrames == 2
\* lines of one build response
MaxBuildLines == 2
\* runs of Database.init() on one store
MaxInits == 3
\* events the provider sends in a run with several events (EventSpec)
MaxEvents == 2
\* characters of the text one line-buffered stream carries
MaxStreamChars == 3
\* concurrent spawn requests on one connection (ConnSpec)
MaxSpawns == 3
\* log rows the runners of those requests insert (ConnSpec)
MaxConnLogs == 3
\* agent output lines of an exec that prints several lines (OutputSpec)
MaxOutputLines == 3

\* ------------------------------------------------------- program constants
MAX_BUILD_RETRIES == 3

\* characters of "sha256=" followed by the 64 hex digits of a SHA-256 digest
SigLen == 71

\* ------------------------------------------------------------ value spaces
NoId == 0
NoTime == 0
NoText == "null"

WsIds == 1..(IF MaxWs >= MaxReruns THEN MaxWs ELSE MaxReruns)
Issues == 1..NumIssues
\* agent_run_id of a spawn request: absent (NoId) or the id of an agent_runs row
AgentRuns == {NoId, 1}
\* messages of the errors the text-completion RPC raises (non-empty texts)
ErrMsgs == {"e1", "e2"}
\* what one await chat(...) does: raise, return a usable recipe, or return a
\* response that is empty after the code fences are stripped
ChatOutcomes == [kind : {"throw"}, msg : ErrMsgs]
                  \cup {[kind |-> "ok", msg |-> NoText], [kind |-> "empty", msg |-> NoText]}

\* an issue id of a request that names no row of the issues table
AbsentIssue == NumIssues + 1
\* no response yet
NoResponse == [route |-> NoText, status |-> 0]
\* no log request in flight
NoLogsReq == [pending |-> FALSE, rows |-> <<>>]

TerminalStatuses ==
  {"completed", "build_failed", "container_crashed", "timeout", "cancelled", "destroyed"}

VARIABLES
  now,            \* the clock read by datetime('now') and Date.now()
  issues,         \* issues table: issue id -> status
  ws,             \* workspaces table: sequence of rows, id = index
  contributions,  \* contributions table: sequence of rows, id = index
  logs,           \* workspace_logs rows of each workspace, in id order
  containers,     \* containers that exist at the daemon (id = workspace id)
  spawnPc,        \* position of each spawn handler
  spawnLocal,     \* locals of each spawn handler
  chatLog,        \* text-completion calls made by each spawn handler
  runnerPc,       \* position of each background runner
  execResult,     \* exit code the daemon recorded for the agent exec
  lineBuffer,     \* streams whose line buffer holds an incomplete line
  destroyReq,     \* the destroy request in flight for each workspace
  repoEnvs,       \* issues whose repository has a repository_environments row
  webhooks,       \* webhooks table: sequence of rows, id = index
  extractPc,      \* position of the extract handler of each issue
  extractLocal,   \* issue state scraped by the extract handler of each issue
  lastLogId,      \* log reader: the largest log id it has received
  workspaceLogs,  \* log reader: the ids of the rows it has received, in order
  logsReq,        \* log reader: the response on its way to it
  agentPc,        \* polling agent: position of processIssue for each workspace
  agentExit,      \* polling agent: exit code of its docker exec
  openPr,         \* provider: head branch of the open pull request gh finds for each issue
  issueBody,      \* issues.body: the lines of the text
  aiFixPrompt,    \* issues.ai_fix_prompt: the lines of the text (empty: null)
  promptFile,     \* container: what the heredoc write of the prompt did
  daemonCall,     \* daemon client: the last request made with dockerRequest
  buildStream,    \* daemon client: the build request in progress
  execStream,     \* daemon client: the exec start request in progress
  DOCKER_SOCKET_PATHS, \* daemon client: the default socket paths, once the module is loaded
  dockerSocketPath,    \* daemon client: the socket path it resolved (NoPath: null)
  socketResult,   \* daemon client: what the last getDockerSocketPath() returned
  currentContext, \* host: the endpoint of the context ~/.docker/config.json names
  socketFiles,    \* host: the paths that can be accessed
  config,         \* config table: key -> value (NoText: no row)
  startup,        \* store: the runs of init() and the config table the last one found
  lineStream,     \* a line-buffered stream: its buffer, and the lines onLine was called with
  conn,           \* the server's connection to the store: last_insert_rowid() and the rows
  handler,        \* spawn requests on that connection: position, row read back, runner's row
  response        \* the last response of the handlers that answer at once

\* state of a client that polls GET /workspaces/:id/logs
readerVars == <<lastLogId, workspaceLogs, logsReq>>

\* state of the polling agent process (apps/agents)
agentVars == <<agentPc, agentExit>>

\* what the prompt of a run is made from, and where it is written
promptVars == <<openPr, issueBody, aiFixPrompt, promptFile>>

\* state of the client of the container daemon (packages/shared/src/docker)
\* the socket path of the daemon client and the host it is resolved on
socketVars == <<DOCKER_SOCKET_PATHS, dockerSocketPath, socketResult, currentContext,
                socketFiles>>

dockerVars == <<daemonCall, buildStream, execStream>>

\* the config table and the runs of Database.init()
storeVars == <<config, startup>>

\* state outside the workspace orchestrator's tables
\* the store connection of the server and the spawn requests that use it
connVars == <<conn, handler>>

hostVars == <<socketVars, storeVars, lineStream, connVars>>

\* state of the routes other than spawn, destroy and the runner, and of their clients
apiVars == <<repoEnvs, webhooks, extractPc, extractLocal, response, readerVars, agentVars,
             promptVars, dockerVars, hostVars>>

vars == <<now, issues, ws, contributions, logs, containers, spawnPc, spawnLocal,
          chatLog, runnerPc, execResult, destroyReq, lineBuffer, apiVars>>

\* the body of an issue as it was created
DefaultBody == <<"steps to reproduce">>

\* no file written, no command run
NoPromptFile == [written |-> FALSE, file |-> <<>>, ran |-> <<>>, exitCode |-> 0]

\* no request made with dockerRequest
NoCall == [op |-> NoText, status |-> 0, message |-> NoText, outcome |-> NoText,
           error |-> NoText]

\* no build request
NoBuild == [pc |-> "idle", status |-> 0, sent |-> <<>>, wire |-> <<>>, lastError |-> NoText,
            imageId |-> NoText, outcome |-> NoText, error |-> NoText]

\* no exec start request
NoExec == [pc |-> "idle", status |-> 0, frames |-> <<>>, wire |-> <<>>, stdout |-> <<>>,
           stderr |-> <<>>, outcome |-> NoText]

\* the keys init() gives a default value, and a key of the user's own
ConfigKeys ==
  {"max_concurrent_agents", "workspace_timeout_minutes", "workspace_default_memory_mb",
   "workspace_default_cpu_cores", "github_token"}

\* a config table without rows
NoConfig == [k \in ConfigKeys |-> NoText]

\* INSERT OR REPLACE INTO config (key, value): a default that overwrites
InsertOrReplace(table, key, value) == [table EXCEPT ![key] = value]

\* INSERT OR IGNORE INTO config (key, value) VALUES (?, ?): key is the
\* primary key, so a row that exists is kept
InsertOrIgnore(table, key, value) ==
  IF table[key] = NoText THEN [table EXCEPT ![key] = value] ELSE table

\* Database.init (lines 12-200) on the config table: CREATE TABLE IF NOT EXISTS
\* leaves an existing table alone, then the four defaults (lines 183-187)
InitConfig(table) ==
  LET t1 == InsertOrIgnore(table, "max_concurrent_agents", "1")
      t2 == InsertOrIgnore(t1, "workspace_timeout_minutes", "60")
      t3 == InsertOrIgnore(t2, "workspace_default_memory_mb", "2048")
  IN InsertOrIgnore(t3, "workspace_default_cpu_cores", "1.0")

\* a connection that has inserted nothing
NoConn == [rowid |-> 0, workspaces |-> <<>>, logs |-> <<>>]

\* a spawn request that has not arrived
NoHandler == [pc |-> "idle", workspace |-> NoId, runner |-> NoId]

\* no line-buffered stream created
NoStream == [pc |-> "idle", sent |-> <<>>, wire |-> <<>>, buffer |-> <<>>, lines |-> <<>>]

\* a host of the daemon: the text before the path, and the path
Host(scheme, rest) == [scheme |-> scheme, rest |-> rest]

\* no path resolved, no host configured
NoPath == Host(NoText, NoText)

\* the module is not loaded yet
NotLoaded == [loaded |-> FALSE, paths |-> <<>>]

InitLocal ==
  [buildAttempt |-> 0, lastBuildError |-> NoText, dockerfile |-> FALSE,
   existingBranchName |-> NoText, builds |-> 0,
   body |-> DefaultBody, ai_fix_prompt |-> <<>>, existingPrUrl |-> NoText]

Init ==
  /\ now = 1
  /\ issues = [i \in Issues |-> "open"]
  /\ ws = <<>>
  /\ contributions = <<>>
  /\ logs = [w \in WsIds |-> <<>>]
  /\ containers = {}
  /\ spawnPc = [w \in WsIds |-> "idle"]
  /\ spawnLocal = [w \in WsIds |-> InitLocal]
  /\ chatLog = [w \in WsIds |-> <<>>]
  /\ runnerPc = [w \in WsIds |-> "idle"]
  /\ execResult = [w \in WsIds |-> 1]
  /\ destroyReq = [w \in WsIds |-> "none"]
  /\ repoEnvs \in SUBSET Issues
  /\ webhooks = <<>>
  /\ extractPc = [i \in Issues |-> "idle"]
  /\ extractLocal = [i \in Issues |-> NoText]
  /\ response = NoResponse
  /\ lineBuffer = [w \in WsIds |-> {}]
  /\ lastLogId = [w \in WsIds |-> 0]
  /\ workspaceLogs = [w \in WsIds |-> <<>>]
  /\ logsReq = [w \in WsIds |-> NoLogsReq]
  /\ agentPc = [w \in WsIds |-> "idle"]
  /\ agentExit = [w \in WsIds |-> 1]
  /\ openPr = [i \in Issues |-> NoText]
  /\ issueBody = [i \in Issues |-> DefaultBody]
  /\ aiFixPrompt = [i \in Issues |-> <<>>]
  /\ promptFile = [w \in WsIds |-> NoPromptFile]
  /\ daemonCall = NoCall
  /\ buildStream = NoBuild
  /\ execStream = NoExec
  /\ DOCKER_SOCKET_PATHS = NotLoaded
  /\ dockerSocketPath = NoPath
  /\ socketResult = NoPath
  /\ currentContext = NoPath
  /\ socketFiles = {}
  /\ config = InitConfig(NoConfig)
  /\ startup = [runs |-> 1, found |-> NoConfig]
  /\ lineStream = NoStream
  /\ conn = NoConn
  /\ handler = [h \in 1..MaxSpawns |-> NoHandler]

\* ------------------------------------------------------------- helpers
\* an error helper that also stores a container id in the row
setWorkspaceErrorWithContainer(rows, w, status, errType) ==
  [rows EXCEPT ![w].status = status, ![w].error_message = errType, ![w].container_id = w]

\* UPDATE workspaces SET status = ?, error_message = ? WHERE id = ?
setWorkspaceError(rows, w, status, errType) ==
  [rows EXCEPT ![w].status = status, ![w].error_message = errType]

\* INSERT INTO workspace_logs (workspace_id, line, stream)
LogLine(w, stream, line) ==
  [logs EXCEPT ![w] = Append(@, [stream |-> stream, line |-> line])]

\* ids of the contributions rows of an issue, ascending
ContribIdsOf(rows, i) == {c \in 1..Len(rows) : rows[c].issue_id = i}

\* SELECT branch_name FROM contributions WHERE issue_id = ? AND branch_name
\* IS NOT NULL ORDER BY id DESC LIMIT 1
ExistingBranch(i) ==
  LET cs == {c \in ContribIdsOf(contributions, i) : contributions[c].branch_name # NoText}
  IN IF cs = {} THEN NoText
     ELSE contributions[CHOOSE c \in cs : \A d \in cs : d <= c].branch_name

\* the url of the open pull request gh pr list reports for the issue, or null
ExistingOpenPrUrl(i) == IF openPr[i] # NoText THEN "https://github.com/o/r/pull/8" ELSE NoText

\* existingContribution?.pr_url || existingOpenPrUrl || null
ExistingPrUrl(i) ==
  LET cs == {c \in ContribIdsOf(contributions, i) : contributions[c].branch_name # NoText}
      prUrl == IF cs = {} THEN NoText
               ELSE contributions[CHOOSE c \in cs : \A d \in cs : d <= c].pr_url
  IN IF prUrl # NoText THEN prUrl ELSE ExistingOpenPrUrl(i)

\* ------------------------------------------------- POST /workspaces/spawn
\* steps 1-4: load the issue, look for a prior branch, insert the row
SpawnBegin(i, run, timeout, limit) ==
  /\ Len(ws) < limit
  /\ i \in DOMAIN issues
  /\ LET w == Len(ws) + 1
         existing == ExistingBranch(i)
     IN /\ ws' = Append(ws,
                  [issue_id |-> i, agent_run_id |-> run, container_id |-> NoId,
                   status |-> "building",
                   branch_name |-> IF existing # NoText THEN existing ELSE "fix/issue-N",
                   expires_at |-> now + timeout,
                   destroyed_at |-> NoTime, error_message |-> NoText,
                   pr_url |-> NoText])
        /\ spawnPc' = [spawnPc EXCEPT ![w] = "ping"]
        /\ spawnLocal' = [spawnLocal EXCEPT ![w] =
             [InitLocal EXCEPT !.existingBranchName = existing,
                               !.existingPrUrl = ExistingPrUrl(i),
                               !.body = issueBody[i],
                               !.ai_fix_prompt = aiFixPrompt[i]]]
  /\ UNCHANGED <<now, issues, contributions, logs, containers, chatLog, runnerPc,
                 execResult, destroyReq>>
  /\ UNCHANGED <<apiVars, lineBuffer>>

\* steps 1-2 when the request names no issue row: "Issue not found" is thrown
\* before anything is written (a repository row cannot be missing: issues
\* reference repositories and the connection enforces foreign keys)
SpawnReject(i) ==
  /\ i \notin DOMAIN issues
  /\ response' = [route |-> "spawn", status |-> 500]
  /\ UNCHANGED <<now, issues, ws, contributions, logs, containers, spawnPc, spawnLocal,
                 chatLog, runnerPc, execResult, destroyReq, repoEnvs, webhooks,
                 extractPc, extractLocal, lineBuffer, readerVars, agentVars, promptVars,
                 dockerVars, hostVars>>

\* step 5: await checkDockerAvailable()
SpawnPing(w, available) ==
  /\ spawnPc[w] = "ping"
  /\ IF available
       THEN /\ spawnPc' = [spawnPc EXCEPT ![w] = "synth"]
            /\ ws' = ws
       ELSE /\ spawnPc' = [spawnPc EXCEPT ![w] = "raised"]
            /\ ws' = setWorkspaceError(ws, w, "build_failed", "build_failed")
  /\ UNCHANGED <<now, issues, contributions, logs, containers, spawnLocal, chatLog,
                 runnerPc, execResult, destroyReq>>
  /\ UNCHANGED <<apiVars, lineBuffer>>

\* a catch block that keeps the first error it saw
SynthCatchKeepsFirst(local, msg) ==
  IF local.lastBuildError = NoText THEN [local EXCEPT !.lastBuildError = msg] ELSE local

\* the catch block of one synthesis attempt (lines 832-834): lastBuildError
SynthCatch(local, msg) == [local EXCEPT !.lastBuildError = msg]

\* step 6: one iteration of the loop
\*   while (buildAttempt < MAX_BUILD_RETRIES && !dockerfile)
\* around await chat(...), and the check after the loop when the loop ends
SpawnSynth(w, outcome) ==
  /\ spawnPc[w] = "synth"
  /\ spawnLocal[w].buildAttempt < MAX_BUILD_RETRIES
  /\ ~spawnLocal[w].dockerfile
  /\ LET attempt == spawnLocal[w].buildAttempt + 1
         l1 == [spawnLocal[w] EXCEPT !.buildAttempt = attempt]
     IN /\ chatLog' = [chatLog EXCEPT ![w] =
                         Append(@, [err |-> spawnLocal[w].lastBuildError, outcome |-> outcome])]
        /\ CASE outcome.kind = "ok" ->
                  /\ spawnLocal' = [spawnLocal EXCEPT ![w] = [l1 EXCEPT !.dockerfile = TRUE]]
                  /\ spawnPc' = [spawnPc EXCEPT ![w] = "build"]
                  /\ ws' = ws
             [] outcome.kind = "empty" ->
                  /\ spawnLocal' = [spawnLocal EXCEPT ![w] = l1]
                  /\ spawnPc' = [spawnPc EXCEPT ![w] =
                                   IF attempt < MAX_BUILD_RETRIES THEN "synth" ELSE "raised"]
                  /\ ws' = ws
             [] outcome.kind = "throw" ->
                  /\ spawnLocal' = [spawnLocal EXCEPT ![w] = SynthCatch(l1, outcome.msg)]
                  /\ IF attempt >= MAX_BUILD_RETRIES
                       THEN /\ ws' = setWorkspaceError(ws, w, "build_failed", "build_failed")
                            /\ spawnPc' = [spawnPc EXCEPT ![w] = "raised"]
                       ELSE /\ ws' = ws
                            /\ spawnPc' = [spawnPc EXCEPT ![w] = "synth"]
  /\ UNCHANGED <<now, issues, contributions, logs, containers, runnerPc, execResult,
                 destroyReq>>
  /\ UNCHANGED <<apiVars, lineBuffer>>

\* step 7: await buildImageFromDockerfile(...)
SpawnBuild(w, built) ==
  /\ spawnPc[w] = "build"
  /\ spawnLocal' = [spawnLocal EXCEPT ![w].builds = @ + 1]
  /\ chatLog' = [chatLog EXCEPT ![w] = <<>>]
  /\ IF built
       THEN /\ spawnPc' = [spawnPc EXCEPT ![w] = "create"]
            /\ ws' = ws
       ELSE /\ spawnPc' = [spawnPc EXCEPT ![w] = "raised"]
            /\ ws' = setWorkspaceError(ws, w, "build_failed", "build_failed")
  /\ UNCHANGED <<now, issues, contributions, logs, containers, runnerPc,
                 execResult, destroyReq>>
  /\ UNCHANGED <<apiVars, lineBuffer>>

\* step 8-9: await createAndStartContainer(...), then without a further await
\* the UPDATE to running and the call of executeOpenCodeInBackground, which
\* runs up to its first await (the start log line, lines 114-121), and the
\* return of the row; a failure is raised to the caller
SpawnCreate(w, outcome) ==
  /\ spawnPc[w] = "create"
  /\ outcome \in {"ok", "create_failed", "start_failed"}
  /\ CASE outcome = "ok" ->
            /\ containers' = containers \cup {w}
            /\ ws' = [ws EXCEPT ![w].container_id = w, ![w].status = "running"]
            /\ logs' = LogLine(w, "stdout", "[System] Starting OpenCode")
            /\ runnerPc' = [runnerPc EXCEPT ![w] = "write_prompt"]
            /\ spawnPc' = [spawnPc EXCEPT ![w] = "done"]
            /\ spawnLocal' = [spawnLocal EXCEPT ![w] =
                 [InitLocal EXCEPT !.existingBranchName = spawnLocal[w].existingBranchName,
                                   !.existingPrUrl = spawnLocal[w].existingPrUrl,
                                   !.body = spawnLocal[w].body,
                                   !.ai_fix_prompt = spawnLocal[w].ai_fix_prompt]]
       [] outcome = "create_failed" ->
            /\ containers' = containers
            /\ ws' = setWorkspaceError(ws, w, "container_crashed", "container_crashed")
            /\ spawnPc' = [spawnPc EXCEPT ![w] = "raised"]
            /\ UNCHANGED <<logs, runnerPc, spawnLocal>>
       [] outcome = "start_failed" ->
            \* POST /containers/create succeeded, POST /containers/{id}/start failed
            /\ containers' = containers \cup {w}
            /\ ws' = setWorkspaceError(ws, w, "container_crashed", "container_crashed")
            /\ spawnPc' = [spawnPc EXCEPT ![w] = "raised"]
            /\ UNCHANGED <<logs, runnerPc, spawnLocal>>
  /\ UNCHANGED <<now, issues, contributions, chatLog, execResult, destroyReq>>
  /\ UNCHANGED <<apiVars, lineBuffer>>

\* the raised error reaches the caller as the response: the handler is over
SpawnRespond(w) ==
  /\ spawnPc[w] = "raised"
  /\ spawnPc' = [spawnPc EXCEPT ![w] = "done"]
  /\ spawnLocal' = [spawnLocal EXCEPT ![w] = InitLocal]
  /\ chatLog' = [chatLog EXCEPT ![w] = <<>>]
  /\ UNCHANGED <<now, issues, ws, contributions, logs, containers, runnerPc, execResult,
                 destroyReq>>
  /\ UNCHANGED <<apiVars, lineBuffer>>

\* ------------------------------------------- executeOpenCodeInBackground
\* the catch block of the exec (lines 178-201): log, container_crashed, return
RunnerCatch(w) ==
  /\ logs' = LogLine(w, "stderr", "[System] Exec error")
  /\ ws' = setWorkspaceError(ws, w, "container_crashed", "container_crashed")
  /\ runnerPc' = [runnerPc EXCEPT ![w] = "done"]

\* the lines that tell the agent what to do with its branch
CreateBranchLine == "Create a git branch named fix/issue-N"
CreatePrLine == "Create a pull request FROM your fork TO the original repository"
ReuseBranchLine == "Checkout the existing branch"
NoNewPrLine == "Do NOT create a new pull request - just push to the existing branch"

\* lines 59-112: the prompt, as lines. issue holds what spawn passed to the
\* runner: body and ai_fix_prompt of the issue row it loaded, and the prior
\* branch and pull request it found
BuildPrompt(issue) ==
  LET isRerun == issue.existingBranchName # NoText
      body == IF issue.body # <<>> THEN issue.body ELSE <<"No description provided">>
  IN IF issue.ai_fix_prompt # <<>> THEN issue.ai_fix_prompt
     ELSE IF isRerun
       THEN <<"Fix GitHub issue #N: title">> \o body
              \o <<"IMPORTANT: This is a RE-RUN of a previous fix attempt. A PR already exists.",
                    "Existing branch:", issue.existingBranchName,
                    "Existing PR:",
                    IF issue.existingPrUrl # NoText THEN issue.existingPrUrl ELSE "unknown",
                    "Sync with upstream first: git fetch upstream && git rebase upstream/main",
                    ReuseBranchLine, NoNewPrLine>>
       ELSE <<"Fix GitHub issue #N: title">> \o body
              \o <<"IMPORTANT SETUP INFO:",
                    "First, sync with upstream: git fetch upstream && git rebase upstream/main",
                    CreateBranchLine, CreatePrLine>>

\* the delimiter of the heredoc
PROMPT_EOF == "PROMPT_EOF"

\* bash -c "cat > /tmp/prompt.txt << 'PROMPT_EOF'\n${prompt}\nPROMPT_EOF":
\* the heredoc ends at the first line that equals the delimiter; the lines
\* after it are commands of the script, and the exit code of the script is
\* that of its last command (127 for the delimiter read as a command)
HeredocWrite(prompt) ==
  LET script == prompt \o <<PROMPT_EOF>>
      k == CHOOSE k \in 1..Len(script) :
             script[k] = PROMPT_EOF /\ \A j \in 1..(k - 1) : script[j] # PROMPT_EOF
      ran == SubSeq(script, k + 1, Len(script))
  IN [written |-> TRUE, file |-> SubSeq(script, 1, k - 1), ran |-> ran,
      exitCode |-> IF ran = <<>> THEN 0 ELSE 127]

\* first await execInContainer: the heredoc write of the prompt (its exit code
\* is not read); the daemon answers 404 when the container is gone
RunnerWritePrompt(w, raised) ==
  /\ runnerPc[w] = "write_prompt"
  /\ IF raised \/ w \notin containers
       THEN RunnerCatch(w) /\ UNCHANGED promptFile
       ELSE /\ runnerPc' = [runnerPc EXCEPT ![w] = "exec"]
            /\ promptFile' = [promptFile EXCEPT ![w] = HeredocWrite(BuildPrompt(spawnLocal[w]))]
            /\ UNCHANGED <<ws, logs>>
  /\ UNCHANGED <<now, issues, contributions, containers, spawnPc, spawnLocal, chatLog,
                 execResult, destroyReq>>
  /\ UNCHANGED <<repoEnvs, webhooks, extractPc, extractLocal, response, readerVars, agentVars,
                 openPr, issueBody, aiFixPrompt, lineBuffer, dockerVars, hostVars>>

PrUrl == "https://github.com/o/r/pull/7"
AgentLines == {"output", PrUrl}

\* lines of agent output with text around a URL: two pull-request URLs of the
\* provider in one line, and a merge-request URL of another provider
TwoUrlsLine == "opened https://github.com/o/r/pull/8 (supersedes https://github.com/o/r/pull/7)"
OtherProviderLine == "see https://gitlab.com/o/r/merge_requests/7"
\* what git push prints for a new branch: a URL of the provider under /pull/
\* that is not the URL of a pull request
PullNewLine == "remote: https://github.com/o/r/pull/new/fix/issue-N"
OutputLines == AgentLines \cup {TwoUrlsLine, OtherProviderLine, PullNewLine}

\* extractPrUrl (lines 21-30): match[0] of the first match of
\* /https:\/\/github\.com\/[^\/\s]+\/[^\/\s]+\/pull\/(\d+)/ in the line, or null
extractPrUrl(line) ==
  CASE line = PrUrl -> PrUrl
    [] line = TwoUrlsLine -> "https://github.com/o/r/pull/8"
    [] OTHER -> NoText

\* an onLine that keeps the first URL it detected
DetectPrUrlKeepsFirst(rows, w, line) ==
  IF extractPrUrl(line) # NoText /\ rows[w].pr_url = NoText
    THEN [rows EXCEPT ![w].pr_url = extractPrUrl(line)]
    ELSE rows

\* lines 132-141 of the stdout onLine: if (prInfo) UPDATE workspaces SET pr_url
DetectPrUrl(rows, w, line) ==
  IF extractPrUrl(line) # NoText
    THEN [rows EXCEPT ![w].pr_url = extractPrUrl(line)]
    ELSE rows

AgentLineCount(w) ==
  Cardinality({k \in 1..Len(logs[w]) : logs[w][k].line \in AgentLines})

\* onLine of the stdout / stderr line-buffered streams (lines 124-151)
RunnerLine(w, stream, line) ==
  /\ runnerPc[w] = "exec"
  /\ w \in containers
  /\ AgentLineCount(w) < MaxLines
  /\ logs' = LogLine(w, stream, line)
  /\ lineBuffer' = [lineBuffer EXCEPT ![w] = @ \ {stream}]
  /\ ws' = IF stream = "stdout" THEN DetectPrUrl(ws, w, line) ELSE ws
  /\ UNCHANGED <<now, issues, contributions, containers, spawnPc, spawnLocal, chatLog,
                 runnerPc, execResult, destroyReq>>
  /\ UNCHANGED apiVars

\* rows of a workspace's log that hold lines of agent output
OutputLineCount(w) ==
  Cardinality({k \in 1..Len(logs[w]) : logs[w][k].line \in OutputLines})

\* onLine of the stdout / stderr line-buffered streams (lines 124-151) for an
\* agent that prints several lines, with text around the URLs
RunnerOutput(w, stream, line) ==
  /\ runnerPc[w] = "exec"
  /\ w \in containers
  /\ OutputLineCount(w) < MaxOutputLines
  /\ logs' = LogLine(w, stream, line)
  /\ lineBuffer' = [lineBuffer EXCEPT ![w] = @ \ {stream}]
  /\ ws' = IF stream = "stdout" THEN DetectPrUrl(ws, w, line) ELSE ws
  /\ UNCHANGED <<now, issues, contributions, containers, spawnPc, spawnLocal, chatLog,
                 runnerPc, execResult, destroyReq>>
  /\ UNCHANGED apiVars

\* the text of an incomplete line
PartialLine == "partial output"

\* write() of a line-buffered stream for a chunk without a newline: the text
\* stays in the buffer (at most one incomplete line at a time is modelled)
RunnerChunk(w, stream) ==
  /\ runnerPc[w] = "exec"
  /\ w \in containers
  /\ lineBuffer[w] = {}
  /\ lineBuffer' = [lineBuffer EXCEPT ![w] = {stream}]
  /\ UNCHANGED <<now, issues, ws, contributions, logs, containers, spawnPc, spawnLocal,
                 chatLog, runnerPc, execResult, destroyReq, apiVars>>

\* flushStdout(); flushStderr(): the incomplete lines become log rows
Flushed(buffer) ==
  (IF "stdout" \in buffer THEN << [stream |-> "stdout", line |-> PartialLine] >> ELSE <<>>)
    \o (IF "stderr" \in buffer THEN << [stream |-> "stderr", line |-> PartialLine] >> ELSE <<>>)

\* the exec stream of the agent ends (the agent exits with a code, or the
\* container is removed) and the daemon answers GET /exec/{id}/json: the exit
\* code, or 404 when the container is gone
RunnerExecEnd(w, code) ==
  /\ runnerPc[w] = "exec"
  /\ IF w \in containers
       THEN /\ runnerPc' = [runnerPc EXCEPT ![w] = "inspected"]
            /\ execResult' = [execResult EXCEPT ![w] = code]
       ELSE /\ runnerPc' = [runnerPc EXCEPT ![w] = "inspect_failed"]
            /\ execResult' = [execResult EXCEPT ![w] = 1]
  /\ UNCHANGED <<now, issues, ws, contributions, logs, containers, spawnPc, spawnLocal,
                 chatLog, destroyReq>>
  /\ UNCHANGED <<apiVars, lineBuffer>>

\* the exec socket fails or is idle for 300 s: execInContainer rejects
RunnerExecRaise(w) ==
  /\ runnerPc[w] \in {"exec", "inspect_failed"}
  /\ RunnerCatch(w)
  /\ execResult' = [execResult EXCEPT ![w] = 1]
  /\ UNCHANGED <<now, issues, contributions, containers, spawnPc, spawnLocal, chatLog,
                 destroyReq>>
  /\ UNCHANGED <<apiVars, lineBuffer>>

\* an upsert that skips the SELECT and always inserts
UpsertAlwaysInserts(rows, row) ==
  Append(rows, [agent_run_id |-> row.agent_run_id, issue_id |-> row.issue_id,
                pr_url |-> row.pr_url, branch_name |-> row.branch_name,
                status |-> "pr_open"])

\* lines 235-276: SELECT id FROM contributions WHERE issue_id = ?, then UPDATE
\* the row found or INSERT a new one
UpsertContribution(rows, row) ==
  LET cs == ContribIdsOf(rows, row.issue_id)
  IN IF cs # {}
       THEN LET c == CHOOSE c \in cs : \A d \in cs : c <= d
            IN IF row.pr_url # NoText
                 THEN [rows EXCEPT ![c].pr_url = row.pr_url,
                                   ![c].branch_name = row.branch_name,
                                   ![c].status = "pr_open"]
                 ELSE [rows EXCEPT ![c].branch_name = row.branch_name,
                                   ![c].status = "pr_open"]
       ELSE Append(rows, [agent_run_id |-> row.agent_run_id, issue_id |-> row.issue_id,
                          pr_url |-> row.pr_url, branch_name |-> row.branch_name,
                          status |-> "pr_open"])

\* line 230: if (completedWorkspace?.issue_id && completedWorkspace.agent_run_id)
RecordsContribution(row) == row.issue_id # NoId /\ row.agent_run_id # NoId

\* lines 203-308, run without an await once execInContainer has returned the
\* exit code: flush of the line buffers, completion log line, status,
\* contribution, issue status, the log line of the grace period
RunnerAfterExec(w) ==
  /\ runnerPc[w] = "inspected"
  /\ lineBuffer' = [lineBuffer EXCEPT ![w] = {}]
  /\ logs' = [logs EXCEPT ![w] = @ \o Flushed(lineBuffer[w]) \o
               << [stream |-> "stdout", line |-> "[System] OpenCode execution completed"],
                  [stream |-> "stdout", line |-> "[System] Waiting 60 seconds"] >>]
  /\ IF execResult[w] = 0
       THEN LET completedWorkspace == [ws[w] EXCEPT !.status = "completed"]
            IN /\ ws' = [ws EXCEPT ![w].status = "completed"]
               /\ IF RecordsContribution(completedWorkspace)
                    THEN /\ contributions' = UpsertContribution(contributions, completedWorkspace)
                         /\ issues' = [issues EXCEPT ![completedWorkspace.issue_id] = "pr_open"]
                    ELSE UNCHANGED <<contributions, issues>>
       ELSE /\ ws' = setWorkspaceError(ws, w, "container_crashed", "container_crashed")
            /\ UNCHANGED <<contributions, issues>>
  /\ runnerPc' = [runnerPc EXCEPT ![w] = "grace"]
  /\ UNCHANGED <<now, containers, spawnPc, spawnLocal, chatLog, execResult, destroyReq>>
  /\ UNCHANGED apiVars

\* await sleep(60000)
RunnerGrace(w) ==
  /\ runnerPc[w] = "grace"
  /\ runnerPc' = [runnerPc EXCEPT ![w] = "cleanup"]
  /\ UNCHANGED <<now, issues, ws, contributions, logs, containers, spawnPc, spawnLocal,
                 chatLog, execResult, destroyReq>>
  /\ UNCHANGED <<apiVars, lineBuffer>>

\* lines 311-333: await stopAndRemoveContainer(containerId); the DELETE is
\* answered 404 when the container is gone, and then destroyed_at is not set
RunnerCleanup(w) ==
  /\ runnerPc[w] = "cleanup"
  /\ IF w \in containers
       THEN /\ containers' = containers \ {w}
            /\ ws' = [ws EXCEPT ![w].destroyed_at = now]
            /\ logs' = LogLine(w, "stdout", "[System] Container destroyed successfully")
       ELSE /\ containers' = containers
            /\ ws' = ws
            /\ logs' = LogLine(w, "stderr", "[System] Failed to destroy container")
  /\ runnerPc' = [runnerPc EXCEPT ![w] = "done"]
  /\ UNCHANGED <<now, issues, contributions, spawnPc, spawnLocal, chatLog, execResult,
                 destroyReq>>
  /\ UNCHANGED <<apiVars, lineBuffer>>

\* ------------------------------------------- POST /workspaces/:id/destroy
\* UPDATE workspaces SET status = 'destroyed', destroyed_at = datetime('now')
MarkDestroyed(rows, w) ==
  [rows EXCEPT ![w].status = "destroyed", ![w].destroyed_at = now]

\* the handler up to the daemon's answer: without a container_id the row is
\* updated at once; with one, stopAndRemoveContainer is awaited and the
\* daemon removes the container, or answers the DELETE with 404
DestroyCall(w) ==
  /\ w \in 1..Len(ws)
  /\ destroyReq[w] = "none"
  /\ IF ws[w].container_id = NoId
       THEN /\ ws' = MarkDestroyed(ws, w)
            /\ destroyReq' = [destroyReq EXCEPT ![w] = "success"]
            /\ containers' = containers
       ELSE /\ ws' = ws
            /\ containers' = containers \ {ws[w].container_id}
            /\ destroyReq' = [destroyReq EXCEPT ![w] =
                 IF ws[w].container_id \in containers THEN "removed" ELSE "not_found"]
  /\ UNCHANGED <<now, issues, contributions, logs, spawnPc, spawnLocal, chatLog, runnerPc,
                 execResult>>
  /\ UNCHANGED <<apiVars, lineBuffer>>

\* the handler after await stopAndRemoveContainer: the UPDATE, or the error
DestroyReturn(w) ==
  /\ destroyReq[w] \in {"removed", "not_found"}
  /\ IF destroyReq[w] = "removed"
       THEN /\ ws' = MarkDestroyed(ws, w)
            /\ destroyReq' = [destroyReq EXCEPT ![w] = "success"]
       ELSE /\ ws' = ws
            /\ destroyReq' = [destroyReq EXCEPT ![w] = "error"]
  /\ UNCHANGED <<now, issues, contributions, logs, containers, spawnPc, spawnLocal, chatLog,
                 runnerPc, execResult>>
  /\ UNCHANGED <<apiVars, lineBuffer>>

\* ------------------------------------------------- POST /webhooks/github
\* the pull request the agent of this model opens is number 7 of o/r
OtherRepoPrUrl == "https://github.com/x/y/pull/7"
UnknownPrUrl == "https://github.com/o/r/pull/8"

\* prUrl?.match(/\/pull\/(\d+)/): the pr_number the runner stores with a pr_url
PrNumberOf(url) ==
  CASE url = PrUrl -> 7
    [] url = OtherRepoPrUrl -> 7
    [] url = UnknownPrUrl -> 8
    [] OTHER -> NoId

\* a payload without a pull_request object
NoPullRequest == [number |-> NoId, html_url |-> NoText, merged |-> FALSE]

\* the pull_request object of a payload
PullRequest(u, m) == [number |-> PrNumberOf(u), html_url |-> u, merged |-> m]

PullRequests ==
  {PullRequest(PrUrl, TRUE), PullRequest(PrUrl, FALSE),
   PullRequest(OtherRepoPrUrl, TRUE), PullRequest(UnknownPrUrl, TRUE)}

\* values JSON.parse returns: null, or an object whose action and
\* pull_request fields are present or absent
NullPayload == [null |-> TRUE, action |-> NoText, pull_request |-> NoPullRequest]

Payloads ==
  {NullPayload}
    \cup {[null |-> FALSE, action |-> a, pull_request |-> NoPullRequest] : a \in {NoText, "closed"}}
    \cup {[null |-> FALSE, action |-> "closed", pull_request |-> pr] : pr \in PullRequests}
    \cup {[null |-> FALSE, action |-> "opened", pull_request |-> pr] :
            pr \in {q \in PullRequests : q.html_url = PrUrl /\ ~q.merged}}

\* raw request bodies: a text that is not JSON, or the text of a payload
NotJson == [json |-> FALSE, value |-> NullPayload]
RawBodies == {NotJson} \cup {[json |-> TRUE, value |-> v] : v \in Payloads}

\* JSON.parse(rawBody): the value, or a SyntaxError
JSONparse(rawBody) ==
  IF rawBody.json THEN [ok |-> TRUE, value |-> rawBody.value]
  ELSE [ok |-> FALSE, value |-> NullPayload]

\* GITHUB_WEBHOOK_SECRET of the server (NoText: not set) and the keys senders sign with
Secrets == {NoText, "s1"}
SignKeys == {"s1", "s2"}
EventTypes == {NoText, "pull_request", "push"}

\* createHmac("sha256", key).update(body).digest("hex"): a digest that
\* differs whenever the key or the body differs
Hmac(key, body) == [key |-> key, body |-> body]

\* "sha256=" + digest, and the same text with its last character cut off
SigHeader(key, body, len) == [mac |-> Hmac(key, body), len |-> len]

\* a request without the header
NoSignature == [mac |-> Hmac(NoText, NotJson), len |-> 0]

\* x-hub-signature-256 headers a request for this body can carry: none, the
\* signature of this body under either key, the signature of another body,
\* and the signature of this body with its last character cut off
SigHeadersFor(body) ==
  {NoSignature, SigHeader("s1", NotJson, SigLen), SigHeader("s1", body, SigLen - 1)}
    \cup {SigHeader(k, body, SigLen) : k \in SignKeys}

GithubRequests ==
  UNION {[secret : Secrets, body : {b}, signature : SigHeadersFor(b), event : EventTypes] :
           b \in RawBodies}

\* the header a sender that knows the secret computes: "sha256=" + HMAC-SHA256
ExpectedSignature(req) == SigHeader(req.secret, req.body, SigLen)

\* requests of senders that know the configured secret
VerifiedRequests ==
  {req \in GithubRequests : req.secret # NoText /\ req.signature = ExpectedSignature(req)}

\* timingSafeEqual(a, b): throws when the lengths differ
timingSafeEqual(a, b) ==
  IF a.len # b.len THEN "throws" ELSE IF a = b THEN "true" ELSE "false"

\* a verification that compares the digests and not the lengths
verifyIgnoresLength(payload, signature, secret) ==
  /\ signature # NoSignature
  /\ signature.mac = Hmac(secret, payload)

\* verifyGitHubSignature: a missing header and a thrown comparison are false
verifyGitHubSignature(payload, signature, secret) ==
  /\ signature # NoSignature
  /\ timingSafeEqual(signature, SigHeader(secret, payload, SigLen)) = "true"

\* SELECT * FROM contributions WHERE pr_url = ? OR pr_number = ?: the first
\* row, or NoId (a null pr_url or pr_number equals nothing)
FindContribution(rows, prUrl, prNumber) ==
  LET cs == {c \in 1..Len(rows) :
               /\ rows[c].pr_url # NoText
               /\ rows[c].pr_url = prUrl \/ PrNumberOf(rows[c].pr_url) = prNumber}
  IN IF cs = {} THEN NoId ELSE CHOOSE c \in cs : \A d \in cs : c <= d

\* an integrator that treats every closed pull request as merged
ApplyClosedAsMerged(db, payload) ==
  LET pr == payload.pull_request
      c == FindContribution(db.contributions, pr.html_url, pr.number)
  IN IF c # NoId /\ payload.action = "closed"
       THEN [db EXCEPT !.issues[db.contributions[c].issue_id] = "fixed",
                       !.contributions[c].status = "merged"]
       ELSE db

\* lines 226-267 for an event whose payload has a pull_request object
ApplyPullRequest(db, payload) ==
  LET pr == payload.pull_request
      c == FindContribution(db.contributions, pr.html_url, pr.number)
  IN CASE c = NoId -> db
       [] c # NoId /\ payload.action = "closed" /\ pr.merged ->
            [db EXCEPT !.issues[db.contributions[c].issue_id] = "fixed",
                       !.contributions[c].status = "merged"]
       [] c # NoId /\ payload.action = "closed" /\ ~pr.merged ->
            [db EXCEPT !.contributions[c].status = "closed"]
       [] OTHER -> db

\* the handler as a function of the tables and the request: the response
\* status and the tables it leaves. An exception the handler does not catch
\* is answered 500 and keeps the writes made before it.
PostGithub(db, req) ==
  LET parsed == JSONparse(req.body)
      payload == parsed.value
      stored == [db EXCEPT !.webhooks =
                   Append(@, [event_type |-> req.event, action |-> payload.action])]
  IN CASE req.secret = NoText -> [status |-> 500, db |-> db]
       [] req.secret # NoText
            /\ ~verifyGitHubSignature(req.body, req.signature, req.secret) ->
              [status |-> 401, db |-> db]
       [] OTHER ->
            IF ~parsed.ok THEN [status |-> 400, db |-> db]
            \* payload.action of null: TypeError before the INSERT
            ELSE IF payload.null THEN [status |-> 500, db |-> db]
            \* event_type TEXT NOT NULL: the INSERT throws
            ELSE IF req.event = NoText THEN [status |-> 500, db |-> db]
            ELSE IF req.event # "pull_request" THEN [status |-> 200, db |-> stored]
            \* payload.pull_request.number of undefined: TypeError after the INSERT
            ELSE IF payload.pull_request = NoPullRequest THEN [status |-> 500, db |-> stored]
            ELSE [status |-> 200, db |-> ApplyPullRequest(stored, payload)]

\* the tables the handler reads and writes
Tables == [issues |-> issues, contributions |-> contributions, webhooks |-> webhooks]

WebhookGithub(req) ==
  LET r == PostGithub(Tables, req)
  IN /\ Len(r.db.webhooks) <= MaxWebhooks
     /\ issues' = r.db.issues
     /\ contributions' = r.db.contributions
     /\ webhooks' = r.db.webhooks
     /\ response' = [route |-> "github", status |-> r.status]
     /\ UNCHANGED <<now, ws, logs, containers, spawnPc, spawnLocal, chatLog, runnerPc,
                    execResult, destroyReq, repoEnvs, extractPc, extractLocal,
                    lineBuffer, readerVars, agentVars, promptVars, dockerVars, hostVars>>

\* the handler for the events of a provider that sends several of them
WebhookEvent(req) ==
  LET r == PostGithub(Tables, req)
  IN /\ Len(r.db.webhooks) <= MaxEvents
     /\ issues' = r.db.issues
     /\ contributions' = r.db.contributions
     /\ webhooks' = r.db.webhooks
     /\ response' = [route |-> "github", status |-> r.status]
     /\ UNCHANGED <<now, ws, logs, containers, spawnPc, spawnLocal, chatLog, runnerPc,
                    execResult, destroyReq, repoEnvs, extractPc, extractLocal,
                    lineBuffer, readerVars, agentVars, promptVars, dockerVars, hostVars>>

\* ------------------------------------- POST /issues/:id/extract and /claim
\* the workspace side, which these handlers leave alone
wsVars == <<now, ws, contributions, logs, containers, spawnPc, spawnLocal, chatLog,
            runnerPc, execResult, destroyReq, lineBuffer, readerVars, agentVars, dockerVars, hostVars>>

\* the text the completion RPC returns for the fix prompt: it was asked for a
\* prompt that has the agent create the branch and open a pull request
StoredPrompt == <<"Create a git branch named fix/issue-N", "Push the branch and create a pull request">>

\* the state field of the scraped issue page: absent, or the text scraped
ScrapedStates == {NoText, "open", "closed"}

\* the catch block of extract (lines 507-516): status error, rethrow
ExtractCatch(i) ==
  /\ issues' = [issues EXCEPT ![i] = "error"]
  /\ extractPc' = [extractPc EXCEPT ![i] = "idle"]
  /\ extractLocal' = [extractLocal EXCEPT ![i] = NoText]

\* lines 209-234: the issue and its repository are loaded and the status is
\* set to extracting, whatever it was
ExtractBegin(i) ==
  /\ i \in DOMAIN issues
  /\ extractPc[i] = "idle"
  /\ issues' = [issues EXCEPT ![i] = "extracting"]
  /\ extractPc' = [extractPc EXCEPT ![i] = "scrape_issue"]
  /\ UNCHANGED <<wsVars, repoEnvs, webhooks, extractLocal, response, promptVars>>

\* await firecrawl.scrape(issue.url): the parsed page, or an exception
ExtractScrapeIssue(i, ok, state) ==
  /\ extractPc[i] = "scrape_issue"
  /\ IF ok
       THEN /\ extractLocal' = [extractLocal EXCEPT ![i] = state]
            /\ extractPc' = [extractPc EXCEPT ![i] = "scrape_repo"]
            /\ UNCHANGED issues
       ELSE ExtractCatch(i)
  /\ UNCHANGED <<wsVars, repoEnvs, webhooks, response, promptVars>>

\* await firecrawl.scrape(repoUrl), then lines 357-462: the issue row takes
\* the scraped state (open when there is none) and, when the repository page
\* was parsed, the environment row is inserted or updated
ExtractScrapeRepo(i, ok, parsed) ==
  /\ extractPc[i] = "scrape_repo"
  /\ IF ok
       THEN /\ issues' = [issues EXCEPT ![i] =
                 IF extractLocal[i] # NoText THEN extractLocal[i] ELSE "open"]
            /\ repoEnvs' = IF parsed THEN repoEnvs \cup {i} ELSE repoEnvs
            /\ extractPc' = [extractPc EXCEPT ![i] = "prompt"]
            /\ extractLocal' = [extractLocal EXCEPT ![i] = NoText]
       ELSE ExtractCatch(i) /\ UNCHANGED repoEnvs
  /\ UNCHANGED <<wsVars, webhooks, response, promptVars>>

\* await chat(...) for the fix prompt, then UPDATE issues SET ai_fix_prompt
ExtractPrompt(i, ok) ==
  /\ extractPc[i] = "prompt"
  /\ IF ok
       THEN /\ extractPc' = [extractPc EXCEPT ![i] = "idle"]
            /\ aiFixPrompt' = [aiFixPrompt EXCEPT ![i] = StoredPrompt]
            /\ UNCHANGED <<issues, extractLocal>>
       ELSE ExtractCatch(i) /\ UNCHANGED aiFixPrompt
  /\ UNCHANGED <<wsVars, repoEnvs, webhooks, response, openPr, issueBody, promptFile>>

\* POST /issues/:id/claim: one UPDATE
Claim(i) ==
  /\ i \in DOMAIN issues
  /\ issues' = [issues EXCEPT ![i] = "claimed"]
  /\ UNCHANGED <<wsVars, repoEnvs, webhooks, extractPc, extractLocal, response, promptVars>>

\* ------------------------------------------- GET /workspaces/:id/logs
\* SELECT * FROM workspace_logs WHERE workspace_id = ? AND id >= ?: a query
\* that includes the row the reader saw last
LogsFrom(w, afterId) ==
  SelectSeq([k \in 1..Len(logs[w]) |-> k], LAMBDA k : k >= afterId)

\* SELECT * FROM workspace_logs WHERE workspace_id = ? AND id > ? ORDER BY id
\* ASC: the ids of the rows, a row's id being its position in logs[w]
LogsAfter(w, afterId) ==
  SelectSeq([k \in 1..Len(logs[w]) |-> k], LAMBDA k : k > afterId)

\* the handler: all rows when the request has no after_id (the reader sends
\* none while its lastLogId is 0), the rows after after_id otherwise
GetLogs(w, afterId) ==
  IF afterId = 0 THEN [k \in 1..Len(logs[w]) |-> k] ELSE LogsAfter(w, afterId)

\* the reader's queryFn calls getWorkspaceLogsApi(id, lastLogId || undefined);
\* the handler answers at once and the response travels to the reader
ReaderCall(w) ==
  /\ w \in 1..Len(ws)
  /\ ~logsReq[w].pending
  /\ logsReq' = [logsReq EXCEPT ![w] = [pending |-> TRUE, rows |-> GetLogs(w, lastLogId[w])]]
  /\ UNCHANGED <<now, issues, ws, contributions, logs, containers, spawnPc, spawnLocal,
                 chatLog, runnerPc, execResult, destroyReq, lineBuffer, repoEnvs, webhooks,
                 extractPc, extractLocal, response, lastLogId, workspaceLogs, agentVars,
                 promptVars, dockerVars, hostVars>>

\* the reader receives the response: it appends the rows and keeps the last id
ReaderReceive(w) ==
  /\ logsReq[w].pending
  /\ LET newLogs == logsReq[w].rows
     IN IF Len(newLogs) > 0
          THEN /\ workspaceLogs' = [workspaceLogs EXCEPT ![w] = @ \o newLogs]
               /\ lastLogId' = [lastLogId EXCEPT ![w] = newLogs[Len(newLogs)]]
          ELSE UNCHANGED <<workspaceLogs, lastLogId>>
  /\ logsReq' = [logsReq EXCEPT ![w] = NoLogsReq]
  /\ UNCHANGED <<now, issues, ws, contributions, logs, containers, spawnPc, spawnLocal,
                 chatLog, runnerPc, execResult, destroyReq, lineBuffer, repoEnvs, webhooks,
                 extractPc, extractLocal, response, agentVars, promptVars, dockerVars, hostVars>>

\* ------------------------------------------- GET /workspaces/:id/pr
\* line LIKE '%github.com%pull%'
LikeGithubPull(line) == line \in {PrUrl, TwoUrlsLine, PullNewLine}

\* SELECT line FROM workspace_logs WHERE workspace_id = ? AND line LIKE
\* '%github.com%pull%' ORDER BY id DESC LIMIT 1: the row's position, or NoId
LogWithPr(w) ==
  LET ks == {k \in 1..Len(logs[w]) : LikeGithubPull(logs[w][k].line)}
  IN IF ks = {} THEN NoId ELSE CHOOSE k \in ks : \A j \in ks : j <= k

\* SELECT pr_url FROM contributions WHERE issue_id = ? AND pr_url IS NOT NULL
\* ORDER BY id DESC LIMIT 1: the url, or null
ContributionPrUrl(i) ==
  LET cs == {c \in ContribIdsOf(contributions, i) : contributions[c].pr_url # NoText}
  IN IF cs = {} THEN NoText
     ELSE contributions[CHOOSE c \in cs : \A d \in cs : d <= c].pr_url

\* the handler for an existing workspace (lines 1075-1148): pr_url and source
GetPr(w) ==
  LET k == LogWithPr(w)
      fromLog == IF k = NoId THEN NoText ELSE extractPrUrl(logs[w][k].line)
      fromContribution == IF ws[w].issue_id # NoId THEN ContributionPrUrl(ws[w].issue_id)
                          ELSE NoText
  IN IF ws[w].pr_url # NoText THEN [pr_url |-> ws[w].pr_url, source |-> "workspace"]
     ELSE IF fromLog # NoText THEN [pr_url |-> fromLog, source |-> "logs"]
     ELSE IF fromContribution # NoText
       THEN [pr_url |-> fromContribution, source |-> "contribution"]
     ELSE [pr_url |-> NoText, source |-> NoText]

\* ------------------------------------------------------------ the web UI
\* the caller of destroy receives the response; cancelWorkspaceMutation (ui)
\* then resets the issue with PATCH /issues/:id {status: 'open'}
DestroyRespond(w, ui) ==
  /\ destroyReq[w] \in {"success", "error"}
  /\ destroyReq' = [destroyReq EXCEPT ![w] = "none"]
  /\ issues' = IF ui /\ destroyReq[w] = "success"
                 THEN [issues EXCEPT ![ws[w].issue_id] = "open"]
                 ELSE issues
  /\ UNCHANGED <<now, ws, contributions, logs, containers, spawnPc, spawnLocal, chatLog,
                 runnerPc, execResult>>
  /\ UNCHANGED <<apiVars, lineBuffer>>

\* handleFixWithAI: PATCH /issues/:id {status: 'fixing'} before the spawn
PatchFixing(i) ==
  /\ Len(ws) < MaxWs
  /\ issues[i] \notin {"fixed", "fixing"}
  /\ issues' = [issues EXCEPT ![i] = "fixing"]
  /\ UNCHANGED <<now, ws, contributions, logs, containers, spawnPc, spawnLocal, chatLog,
                 runnerPc, execResult, destroyReq>>
  /\ UNCHANGED <<apiVars, lineBuffer>>

\* ------------------------------- the daemon client: requests (docker)
\* the requests the client makes with dockerRequest
DaemonOps == {"create", "start", "stop", "remove", "exec_create", "exec_inspect"}

\* status codes of the daemon's responses
DaemonStatuses == {200, 404, 500}

\* the message field of an error body, or null when the body has none
DaemonMessages == {NoText, "no such container"}

\* the end handler of dockerRequest (lines 142-164): a 2xx status resolves,
\* any other rejects with the body's message or "Docker API error: <status>"
dockerRequest(op, status, message) ==
  IF status >= 200 /\ status < 300
    THEN [op |-> op, status |-> status, message |-> message, outcome |-> "resolved",
          error |-> NoText]
    ELSE [op |-> op, status |-> status, message |-> message, outcome |-> "rejected",
          error |-> IF message # NoText THEN message ELSE "Docker API error"]

\* what no step of the daemon client's functions touches
dockerFrame == <<now, issues, ws, contributions, logs, containers, spawnPc, spawnLocal,
                 chatLog, runnerPc, execResult, destroyReq, lineBuffer, repoEnvs, webhooks,
                 extractPc, extractLocal, response, readerVars, agentVars, promptVars>>

\* Buffer.readUInt32BE(offset) of the bytes data[offset + 1 .. offset + 4]
readUInt32BE(data, offset) ==
  data[offset + 1] * 16777216 + data[offset + 2] * 65536 + data[offset + 3] * 256
    + data[offset + 4]

\* the four bytes of a size, big-endian
UInt32BE(n) == <<(n \div 16777216) % 256, (n \div 65536) % 256, (n \div 256) % 256, n % 256>>

\* stream.write(bytes) on the sink of the stream type: 2 is stderr, any other
\* type is stdout
WriteSink(sinks, streamType, bytes) ==
  IF streamType = 2 THEN [sinks EXCEPT !.stderr = @ \o bytes]
  ELSE [sinks EXCEPT !.stdout = @ \o bytes]

\* processExecOutput(data, options), from offset on: every call starts at the
\* first byte of the chunk it was given
RECURSIVE processExecOutput(_, _, _)
processExecOutput(data, offset, sinks) ==
  IF offset >= Len(data) THEN sinks
  ELSE IF offset + 8 > Len(data)
    \* not enough data for a header: the rest is written to stdout
    THEN WriteSink(sinks, 1, SubSeq(data, offset + 1, Len(data)))
    ELSE LET streamType == data[offset + 1]
             frameSize == readUInt32BE(data, offset + 4)
             start == offset + 8
         IN IF start + frameSize > Len(data)
              \* partial frame: what is there is written, the rest of the
              \* frame is not remembered
              THEN WriteSink(sinks, streamType, SubSeq(data, start + 1, Len(data)))
              ELSE processExecOutput(data, start + frameSize,
                     WriteSink(sinks, streamType, SubSeq(data, start + 1, start + frameSize)))

\* bytes that read as the header of a one-byte stderr frame, and that byte
HeaderLikePayload == <<2, 0, 0, 0, 0, 0, 0, 1, 66>>

\* payloads of the frames the daemon sends
FramePayloads == {<<65>>, <<65, 66>>, HeaderLikePayload}

\* a frame of the multiplexed stream: 1 is stdout, 2 is stderr
Frames == [type : {1, 2}, payload : FramePayloads]

FrameSeqs == UNION {[1..n -> Frames] : n \in 0..MaxFrames}

\* [type:1][reserved:3][size:4-BE][payload]
EncodeFrame(f) == <<f.type, 0, 0, 0>> \o UInt32BE(Len(f.payload)) \o f.payload

RECURSIVE EncodeFrames(_)
EncodeFrames(fs) == IF fs = <<>> THEN <<>> ELSE EncodeFrame(Head(fs)) \o EncodeFrames(Tail(fs))

\* the longest stream: headers of 8 bytes and the longest payload
MaxWireLen == MaxFrames * (8 + Len(HeaderLikePayload))

\* the body of an error response of the daemon: {"m":"x"}
ErrorBody == <<123, 34, 109, 34, 58, 34, 120, 34, 125>>

\* execInContainer after the exec instance was created: POST /exec/{id}/start
\* is written to a socket of its own and the daemon answers with a status
\* line and, for 200, the frames of the output (the response headers have
\* been read)
ExecStart(status, frames) ==
  /\ execStream.pc = "idle"
  /\ execStream' = [NoExec EXCEPT !.pc = "reading", !.status = status,
                      !.frames = IF status = 200 THEN frames ELSE <<>>,
                      !.wire = IF status = 200 THEN EncodeFrames(frames) ELSE ErrorBody]
  /\ UNCHANGED <<dockerFrame, hostVars, daemonCall, buildStream>>

\* socket.on("data"): a read returns the next n bytes, which go through
\* processExecOutput
ExecRead(n) ==
  /\ execStream.pc = "reading"
  /\ n \in 1..Len(execStream.wire)
  /\ LET chunk == SubSeq(execStream.wire, 1, n)
         sinks == processExecOutput(chunk, 0,
                    [stdout |-> execStream.stdout, stderr |-> execStream.stderr])
     IN execStream' = [execStream EXCEPT
                         !.wire = SubSeq(execStream.wire, n + 1, Len(execStream.wire)),
                         !.stdout = sinks.stdout, !.stderr = sinks.stderr]
  /\ UNCHANGED <<dockerFrame, hostVars, daemonCall, buildStream>>

\* socket.on("end", () => resolve()): the status line is never looked at
ExecEnd ==
  /\ execStream.pc = "reading"
  /\ execStream.wire = <<>>
  /\ execStream' = [execStream EXCEPT !.pc = "ended", !.outcome = "resolved"]
  /\ UNCHANGED <<dockerFrame, hostVars, daemonCall, buildStream>>

\* ------------------------------ the daemon client: image build (docker)
\* the object of one NDJSON line: the keys the handler looks at (null: absent)
\* and the message key of an error response
BuildMsg(stream, status, errorDetail, aux, message) ==
  [stream |-> stream, status |-> status, errorDetail |-> errorDetail, aux |-> aux,
   message |-> message]

\* errorDetail is absent, or an object with a message
NoErrorDetail == [present |-> FALSE, message |-> NoText]
ErrorDetail(message) == [present |-> TRUE, message |-> message]

\* the body of a response with an error status: {"message": ...}
MessageMsg == BuildMsg(NoText, NoText, NoErrorDetail, NoText, "no such image")

\* lines of a build response: progress, the image id, a build error, and a
\* build error on a line that has a stream key too
BuildMsgs ==
  {BuildMsg("Step 1/1 : FROM ubuntu", NoText, NoErrorDetail, NoText, NoText),
   BuildMsg(NoText, NoText, NoErrorDetail, "sha256:abc", NoText),
   BuildMsg(NoText, NoText, ErrorDetail("boom"), NoText, NoText),
   BuildMsg("RUN failed", NoText, ErrorDetail("boom"), NoText, NoText)}

BuildMsgSeqs == UNION {[1..n -> BuildMsgs] : n \in 0..MaxBuildLines}

\* the bytes of line j on the wire: two pieces of its JSON text, neither of
\* which parses alone, and the newline
LineBytes(j) == <<[line |-> j, part |-> 1], [line |-> j, part |-> 2], [line |-> j, part |-> 3]>>

RECURSIVE EncodeLines(_, _)
EncodeLines(j, n) == IF j > n THEN <<>> ELSE LineBytes(j) \o EncodeLines(j + 1, n)

\* the body of the handler's loop for one parsed line (lines 343-360)
OnBuildMsg(st, msg) ==
  IF msg.stream # NoText THEN st
  ELSE IF msg.status # NoText THEN st
  ELSE IF msg.errorDetail.present
    THEN [st EXCEPT !.lastError =
            IF msg.errorDetail.message # NoText THEN msg.errorDetail.message ELSE "Build error"]
  ELSE IF msg.aux # NoText THEN [st EXCEPT !.imageId = msg.aux]
  ELSE st

\* data.toString().split("\n").filter(Boolean) followed by JSON.parse of each
\* piece: a line of the response is parsed when the chunk holds all of its
\* text, and a piece that is part of a line is skipped by the catch
ParsesIn(chunk, j) ==
  /\ \E k \in 1..Len(chunk) : chunk[k] = [line |-> j, part |-> 1]
  /\ \E k \in 1..Len(chunk) : chunk[k] = [line |-> j, part |-> 2]

\* onData(chunk), for the lines j..Len(sent) in order
RECURSIVE OnData(_, _, _)
OnData(st, chunk, j) ==
  IF j > Len(st.sent) THEN st
  ELSE OnData(IF ParsesIn(chunk, j) THEN OnBuildMsg(st, st.sent[j]) ELSE st, chunk, j + 1)

\* buildImageFromDockerfile: POST /build is written and the daemon answers
\* with a status line and NDJSON lines (for an error status, one object with
\* a message), whose headers have been read
BuildStart(status, msgs) ==
  /\ buildStream.pc = "idle"
  /\ LET sent == IF status = 200 THEN msgs ELSE <<MessageMsg>>
     IN buildStream' = [NoBuild EXCEPT !.pc = "reading", !.status = status, !.sent = sent,
                                        !.wire = EncodeLines(1, Len(sent))]
  /\ UNCHANGED <<dockerFrame, hostVars, daemonCall, execStream>>

\* socket.on("data") of dockerStreamRequest: a read returns the next n bytes,
\* which go to onData
BuildRead(n) ==
  /\ buildStream.pc = "reading"
  /\ n \in 1..Len(buildStream.wire)
  /\ buildStream' =
       [OnData(buildStream, SubSeq(buildStream.wire, 1, n), 1) EXCEPT
          !.wire = SubSeq(buildStream.wire, n + 1, Len(buildStream.wire))]
  /\ UNCHANGED <<dockerFrame, hostVars, daemonCall, execStream>>

\* socket.on("end") resolves {statusCode, body}; buildImageFromDockerfile
\* reads body only, throws lastError when it is set, and otherwise returns
\* the image id or the image name
BuildEnd ==
  /\ buildStream.pc = "reading"
  /\ buildStream.wire = <<>>
  /\ buildStream' =
       IF buildStream.lastError # NoText
         THEN [buildStream EXCEPT !.pc = "ended", !.outcome = "rejected",
                                  !.error = buildStream.lastError]
         ELSE [buildStream EXCEPT !.pc = "ended", !.outcome = "resolved"]
  /\ UNCHANGED <<dockerFrame, hostVars, daemonCall, execStream>>

\* one request made with dockerRequest and the daemon's response to it
DockerRequest(op, status, message) ==
  /\ message # NoText => status >= 400
  /\ daemonCall' = dockerRequest(op, status, message)
  /\ UNCHANGED <<dockerFrame, hostVars, buildStream, execStream>>

\* ------------------------------- the daemon client: the socket path
\* values of DOCKER_HOST: unset, a unix socket, a TCP endpoint
EnvSocket == "/custom/docker.sock"
DockerHosts == {NoPath, Host("unix://", EnvSocket), Host("tcp://", "daemon:2375")}

\* Endpoints.docker.Host of the context config.json names: no context (or
\* "default"), a unix socket in either format, a TCP endpoint
ContextSocket == "/ctx/docker.sock"
ContextHosts ==
  {NoPath, Host("unix://", ContextSocket), Host("unix:", ContextSocket),
   Host("tcp://", "daemon:2375")}

\* join(homedir(), ".docker/run/docker.sock") and "/var/run/docker.sock"
UserSocket == Host("", "~/.docker/run/docker.sock")
SystemSocket == Host("", "/var/run/docker.sock")

\* host.replace(/^unix:\/\//, "")
StripUnixSlashes(host) == IF host.scheme = "unix://" THEN Host("", host.rest) ELSE host

\* .replace(/^unix:/, "")
StripUnix(host) == IF host.scheme = "unix:" THEN Host("", host.rest) ELSE host

\* the paths of the files a socket can be
SocketPaths == {Host("", EnvSocket), Host("", ContextSocket), UserSocket, SystemSocket}

\* lines 9-13, evaluated when the module is loaded:
\* [DOCKER_HOST?.replace(...), user socket, system socket].filter(Boolean)
LoadModule(dockerHost) ==
  /\ ~DOCKER_SOCKET_PATHS.loaded
  /\ DOCKER_SOCKET_PATHS' =
       [loaded |-> TRUE,
        paths |-> (IF dockerHost # NoPath THEN <<StripUnixSlashes(dockerHost)>> ELSE <<>>)
                    \o <<UserSocket, SystemSocket>>]
  /\ UNCHANGED <<dockerFrame, dockerVars, storeVars, lineStream, connVars, dockerSocketPath,
                 socketResult, currentContext, socketFiles>>

\* the user selects a context (docker context use), or none
UseContext(host) ==
  /\ currentContext' = host
  /\ UNCHANGED <<dockerFrame, dockerVars, storeVars, lineStream, connVars, DOCKER_SOCKET_PATHS,
                 dockerSocketPath, socketResult, socketFiles>>

\* a daemon starts or stops listening on a socket
SocketChange(files) ==
  /\ socketFiles' = files
  /\ UNCHANGED <<dockerFrame, dockerVars, storeVars, lineStream, connVars, DOCKER_SOCKET_PATHS,
                 dockerSocketPath, socketResult, currentContext>>

\* the paths of DOCKER_SOCKET_PATHS that access() accepts, in order
Accessible(paths, files) == SelectSeq(paths, LAMBDA q : q \in files)

\* what a call throws
SocketNotFound == Host("throws", "Docker socket not found. Is Docker running?")

\* getDockerSocketPath (lines 20-69) as a function of the cached path, the
\* context and the files: the path returned (or the error thrown)
ResolveSocketPath(cached, paths, context, files) ==
  LET socketPath == StripUnix(StripUnixSlashes(context))
      found == Accessible(paths, files)
  IN IF cached # NoPath THEN cached
     ELSE IF context # NoPath /\ socketPath.rest # "" THEN socketPath
     ELSE IF found # <<>> THEN found[1]
     ELSE SocketNotFound

\* one call of getDockerSocketPath: the path is cached unless the call throws
GetDockerSocketPath ==
  /\ DOCKER_SOCKET_PATHS.loaded
  /\ LET r == ResolveSocketPath(dockerSocketPath, DOCKER_SOCKET_PATHS.paths, currentContext,
                                socketFiles)
     IN /\ socketResult' = r
        /\ dockerSocketPath' = IF r = SocketNotFound THEN dockerSocketPath ELSE r
  /\ UNCHANGED <<dockerFrame, dockerVars, storeVars, lineStream, connVars, DOCKER_SOCKET_PATHS,
                 currentContext, socketFiles>>

\* closeDockerClient (lines 297-300): dockerSocketPath = null
CloseDockerClient ==
  /\ DOCKER_SOCKET_PATHS.loaded
  /\ dockerSocketPath' = NoPath
  /\ UNCHANGED <<dockerFrame, dockerVars, storeVars, lineStream, connVars, DOCKER_SOCKET_PATHS,
                 socketResult, currentContext, socketFiles>>

\* ------------------------------- the daemon client: line buffering
\* code points: newline, space, a, e with acute accent, the replacement character
NL == 10
SP == 32
LetterA == 97
EAcute == 233
Replacement == 65533

\* the UTF-8 encoding of a code point
Utf8(c) == IF c = EAcute THEN <<195, 169>> ELSE <<c>>

\* the UTF-8 encoding of a text
RECURSIVE Utf8Text(_)
Utf8Text(text) == IF text = <<>> THEN <<>> ELSE Utf8(Head(text)) \o Utf8Text(Tail(text))

\* texts an agent prints, and the byte streams that carry them
StreamChars == {NL, SP, LetterA, EAcute}
StreamTexts == UNION {[1..n -> StreamChars] : n \in 1..MaxStreamChars}
ByteStreams == {Utf8Text(text) : text \in StreamTexts}

\* chunk.toString(): UTF-8 decoding of one chunk, in which a byte that is not
\* part of a complete sequence becomes the replacement character
RECURSIVE toString(_)
toString(chunk) ==
  IF chunk = <<>> THEN <<>>
  ELSE IF Head(chunk) < 128 THEN <<Head(chunk)>> \o toString(Tail(chunk))
  ELSE IF Head(chunk) = 195 /\ Len(chunk) >= 2 /\ chunk[2] = 169
    THEN <<EAcute>> \o toString(SubSeq(chunk, 3, Len(chunk)))
  ELSE <<Replacement>> \o toString(Tail(chunk))

\* text.split("\n"): the segments between the newlines, at least one
RECURSIVE split(_)
split(text) ==
  IF \A k \in 1..Len(text) : text[k] # NL THEN <<text>>
  ELSE LET k == CHOOSE k \in 1..Len(text) : text[k] = NL /\ \A j \in 1..(k - 1) : text[j] # NL
       IN <<SubSeq(text, 1, k - 1)>> \o split(SubSeq(text, k + 1, Len(text)))

\* line.trim() is not empty
NotBlank(line) == \E k \in 1..Len(line) : line[k] \notin {NL, SP}

\* a stream that emits every segment, blank or not
EmitAll(lines) == lines

\* for (const line of lines) if (line.trim()) onLine(line)
EmitLines(lines) == SelectSeq(lines, NotBlank)

\* the stream is created and the daemon has a byte stream to send through it
StreamStart(bytes) ==
  /\ lineStream.pc = "idle"
  /\ lineStream' = [NoStream EXCEPT !.pc = "writing", !.sent = bytes, !.wire = bytes]
  /\ UNCHANGED <<dockerFrame, dockerVars, socketVars, storeVars, connVars>>

\* write(chunk) for the next n bytes (lines 618-630)
StreamWrite(n) ==
  /\ lineStream.pc = "writing"
  /\ n <= Len(lineStream.wire)
  /\ LET chunk == SubSeq(lineStream.wire, 1, n)
         lines == split(lineStream.buffer \o toString(chunk))
     IN lineStream' = [lineStream EXCEPT
          !.wire = SubSeq(@, n + 1, Len(@)),
          !.buffer = lines[Len(lines)],
          !.lines = @ \o EmitLines(SubSeq(lines, 1, Len(lines) - 1))]
  /\ UNCHANGED <<dockerFrame, dockerVars, socketVars, storeVars, connVars>>

\* flush() (lines 634-639), called when the exec has ended; a second call
\* finds the buffer empty
StreamFlush ==
  /\ lineStream.pc \in {"writing", "flushed"}
  /\ lineStream.wire = <<>>
  /\ lineStream' = [lineStream EXCEPT
       !.pc = "flushed",
       !.buffer = IF NotBlank(@) THEN <<>> ELSE @,
       !.lines = IF NotBlank(lineStream.buffer) THEN Append(@, lineStream.buffer) ELSE @]
  /\ UNCHANGED <<dockerFrame, dockerVars, socketVars, storeVars, connVars>>

\* ------------------------- the store connection: last_insert_rowid()
\* an INSERT of a workspace row that leaves last_insert_rowid() as it was
InsertWorkspaceKeepsRowid(c, row) == [c EXCEPT !.workspaces = Append(@, row)]

\* INSERT INTO workspaces (...) (lines 687-699): id INTEGER PRIMARY KEY
\* AUTOINCREMENT, and the connection remembers the rowid
InsertWorkspace(c, row) ==
  [c EXCEPT !.workspaces = Append(@, row), !.rowid = Len(c.workspaces) + 1]

\* INSERT INTO workspace_logs (workspace_id, line, stream): the ids of this
\* table count on their own, and the connection remembers the rowid
InsertLog(c, workspaceId) ==
  [c EXCEPT !.logs = Append(@, workspaceId), !.rowid = Len(c.logs) + 1]

\* SELECT * FROM workspaces WHERE id = last_insert_rowid(): the id of the
\* row, or NoId when the table has no row with that id
SelectLastInserted(c) == IF c.rowid \in 1..Len(c.workspaces) THEN c.rowid ELSE NoId

\* spawn request h, which is for issue h: lines 687-707, run without an await:
\* the INSERT, the SELECT of the row, "Failed to create workspace" without one
ConnSpawnInsert(h) ==
  /\ handler[h].pc = "idle"
  /\ LET c == InsertWorkspace(conn, [issue_id |-> h, status |-> "building"])
         workspace == SelectLastInserted(c)
     IN /\ conn' = c
        /\ handler' = [handler EXCEPT ![h] =
             [pc |-> IF workspace = NoId THEN "done" ELSE "awaiting",
              workspace |-> workspace, runner |-> NoId]]
  /\ UNCHANGED <<dockerFrame, dockerVars, socketVars, storeVars, lineStream>>

\* the handler after its awaits (daemon, synthesis, build, create): on
\* success the UPDATE to running WHERE id = workspace.id and the call of the
\* runner with workspace.id, which inserts its first log row (lines 116-121,
\* 928-949); on failure setWorkspaceError (lines 709-720)
ConnSpawnUpdate(h, ok) ==
  /\ handler[h].pc = "awaiting"
  /\ LET id == handler[h].workspace
     IN IF ok
          THEN /\ conn' = InsertLog([conn EXCEPT !.workspaces[id].status = "running"], id)
               /\ handler' = [handler EXCEPT ![h].pc = "running", ![h].runner = id]
          ELSE /\ conn' = [conn EXCEPT !.workspaces[id].status = "build_failed"]
               /\ handler' = [handler EXCEPT ![h].pc = "done"]
  /\ UNCHANGED <<dockerFrame, dockerVars, socketVars, storeVars, lineStream>>

\* the runner of request h inserts a log row for its workspaceId (lines 124-151)
ConnRunnerLog(h) ==
  /\ handler[h].pc = "running"
  /\ Len(conn.logs) < MaxConnLogs
  /\ conn' = InsertLog(conn, handler[h].runner)
  /\ UNCHANGED <<dockerFrame, dockerVars, socketVars, storeVars, lineStream, handler>>

\* ------------------------------------------------ the store and /config
\* values a client writes
ConfigValues == {"5"}

\* db.init() of a server start (index.ts of db-api): the store is a file that
\* outlives the process, so init finds what the earlier process left
DbInit ==
  /\ startup.runs < MaxInits
  /\ config' = InitConfig(config)
  /\ startup' = [runs |-> startup.runs + 1, found |-> config]
  /\ UNCHANGED <<dockerFrame, dockerVars, socketVars, lineStream, connVars>>

\* PUT /config/:key (lines 24-43): INSERT ... ON CONFLICT(key) DO UPDATE
PutConfig(key, value) ==
  /\ config' = [config EXCEPT ![key] = value]
  /\ response' = [route |-> "config", status |-> 200]
  /\ UNCHANGED <<now, issues, ws, contributions, logs, containers, spawnPc, spawnLocal,
                 chatLog, runnerPc, execResult, destroyReq, lineBuffer, repoEnvs, webhooks,
                 extractPc, extractLocal, readerVars, agentVars, promptVars, dockerVars,
                 socketVars, lineStream, connVars, startup>>

\* DELETE /config/:key (lines 44-47)
DeleteConfig(key) ==
  /\ config' = [config EXCEPT ![key] = NoText]
  /\ response' = [route |-> "config", status |-> 200]
  /\ UNCHANGED <<now, issues, ws, contributions, logs, containers, spawnPc, spawnLocal,
                 chatLog, runnerPc, execResult, destroyReq, lineBuffer, repoEnvs, webhooks,
                 extractPc, extractLocal, readerVars, agentVars, promptVars, dockerVars,
                 socketVars, lineStream, connVars, startup>>

\* --------------------------------------------- issue text and the provider
\* someone opens a pull request at the provider whose title matches the
\* search of spawn (fix issue #N in:title), from a branch of their own
PrOpened(i, branch) ==
  /\ openPr[i] = NoText
  /\ openPr' = [openPr EXCEPT ![i] = branch]
  /\ UNCHANGED <<now, issues, ws, contributions, logs, containers, spawnPc, spawnLocal,
                 chatLog, runnerPc, execResult, destroyReq, lineBuffer, repoEnvs, webhooks,
                 extractPc, extractLocal, response, readerVars, agentVars, issueBody,
                 aiFixPrompt, promptFile, dockerVars, hostVars>>

\* lines an issue body is made of here
BodyLines == {"steps to reproduce", PROMPT_EOF, "rm -rf repo"}

\* bodies of at most MaxBodyLines lines
Bodies == UNION {[1..n -> BodyLines] : n \in 0..MaxBodyLines}

\* PATCH /issues/:id {body}: UPDATE issues SET body = ?
PatchIssueBody(i, body) ==
  /\ i \in DOMAIN issues
  /\ issueBody[i] # body
  /\ issueBody' = [issueBody EXCEPT ![i] = body]
  /\ UNCHANGED <<now, issues, ws, contributions, logs, containers, spawnPc, spawnLocal,
                 chatLog, runnerPc, execResult, destroyReq, lineBuffer, repoEnvs, webhooks,
                 extractPc, extractLocal, response, readerVars, agentVars, openPr,
                 aiFixPrompt, promptFile, dockerVars, hostVars>>

\* ------------------------------------ the polling agent (apps/agents)
\* what no step of processIssue touches
agentFrame == <<now, contributions, logs, spawnPc, spawnLocal, chatLog, runnerPc,
                execResult, lineBuffer, repoEnvs, webhooks, extractPc, extractLocal,
                response, readerVars, promptVars, dockerVars, hostVars>>

\* processIssue after await apiRequest("/workspaces/spawn") of a request that
\* carried no agent_run_id: on an error response the issue is PATCHed to
\* error and processIssue returns; with the row of a started container it
\* goes on to its own docker exec
AgentSpawnReturned(w) ==
  /\ agentPc[w] = "idle"
  /\ spawnPc[w] = "done"
  /\ ws[w].agent_run_id = NoId
  /\ IF ws[w].container_id # NoId
       THEN /\ agentPc' = [agentPc EXCEPT ![w] = "exec"]
            /\ issues' = issues
       ELSE /\ agentPc' = [agentPc EXCEPT ![w] = "done"]
            /\ issues' = [issues EXCEPT ![ws[w].issue_id] = "error"]
  /\ UNCHANGED <<agentFrame, ws, containers, destroyReq, agentExit>>

\* await runCommand("docker", ["exec", container_id, opencode, "run", ...]):
\* the agent's exit code, or a failure of docker exec when the container is gone
AgentExecEnd(w, code) ==
  /\ agentPc[w] = "exec"
  /\ agentExit' = [agentExit EXCEPT ![w] = IF w \in containers THEN code ELSE 1]
  /\ agentPc' = [agentPc EXCEPT ![w] = "patch_workspace"]
  /\ UNCHANGED <<agentFrame, issues, ws, containers, destroyReq>>

\* PATCH /workspaces/:id {status: completed}, or {status: container_crashed,
\* error_message}: UPDATE workspaces SET status = ?[, error_message = ?]
AgentPatchWorkspace(w) ==
  /\ agentPc[w] = "patch_workspace"
  /\ ws' = IF agentExit[w] = 0
             THEN [ws EXCEPT ![w].status = "completed"]
             ELSE [ws EXCEPT ![w].status = "container_crashed",
                             ![w].error_message = "container_crashed"]
  /\ agentPc' = [agentPc EXCEPT ![w] = "patch_issue"]
  /\ UNCHANGED <<agentFrame, issues, containers, destroyReq, agentExit>>

\* PATCH /issues/:id {status: fixed} or {status: error}
AgentPatchIssue(w) ==
  /\ agentPc[w] = "patch_issue"
  /\ issues' = [issues EXCEPT ![ws[w].issue_id] = IF agentExit[w] = 0 THEN "fixed" ELSE "error"]
  /\ agentPc' = [agentPc EXCEPT ![w] = "destroy"]
  /\ UNCHANGED <<agentFrame, ws, containers, destroyReq, agentExit>>

\* POST /workspaces/:id/destroy sent by processIssue: the destroy handler up
\* to the daemon's answer (the row has a container_id); processIssue does
\* nothing with the response
AgentDestroy(w) ==
  /\ agentPc[w] = "destroy"
  /\ destroyReq[w] = "none"
  /\ containers' = containers \ {ws[w].container_id}
  /\ destroyReq' = [destroyReq EXCEPT ![w] =
       IF ws[w].container_id \in containers THEN "removed" ELSE "not_found"]
  /\ agentPc' = [agentPc EXCEPT ![w] = "done"]
  /\ UNCHANGED <<agentFrame, issues, ws, agentExit>>

\* ------------------------------------------------------------- the clock
Tick ==
  /\ now < MaxClock
  /\ now' = now + 1
  /\ UNCHANGED <<issues, ws, contributions, logs, containers, spawnPc, spawnLocal, chatLog,
                 runnerPc, execResult, destroyReq>>
  /\ UNCHANGED <<apiVars, lineBuffer>>

\* ------------------------------------------------------------------ Next
SpawnStep(limit) ==
  \/ \E i \in Issues, run \in AgentRuns, timeout \in 1..MaxTimeout :
       SpawnBegin(i, run, timeout, limit)
  \/ SpawnReject(AbsentIssue)
  \/ \E w \in WsIds, available \in BOOLEAN : SpawnPing(w, available)
  \/ \E w \in WsIds, outcome \in ChatOutcomes : SpawnSynth(w, outcome)
  \/ \E w \in WsIds, built \in BOOLEAN : SpawnBuild(w, built)
  \/ \E w \in WsIds, outcome \in {"ok", "create_failed", "start_failed"} : SpawnCreate(w, outcome)
  \/ \E w \in WsIds : SpawnRespond(w)

RunnerStep ==
  \/ \E w \in WsIds, raised \in BOOLEAN : RunnerWritePrompt(w, raised)
  \/ \E w \in WsIds, stream \in {"stdout", "stderr"}, line \in AgentLines : RunnerLine(w, stream, line)
  \/ \E w \in WsIds, code \in {0, 1} : RunnerExecEnd(w, code)
  \/ \E w \in WsIds : RunnerExecRaise(w)
  \/ \E w \in WsIds : RunnerAfterExec(w)
  \/ \E w \in WsIds : RunnerGrace(w)
  \/ \E w \in WsIds : RunnerCleanup(w)

DestroyStep ==
  \/ \E w \in WsIds : DestroyCall(w)
  \/ \E w \in WsIds : DestroyReturn(w)
  \/ \E w \in WsIds, ui \in BOOLEAN : DestroyRespond(w, ui)

Next ==
  \/ SpawnStep(MaxWs)
  \/ RunnerStep
  \/ DestroyStep
  \/ \E i \in Issues : PatchFixing(i)
  \/ Tick

Spec == Init /\ [][Next]_vars

\* the event loop keeps serving handlers and runners whose awaits have
\* settled, and time passes; no request is ever guaranteed to arrive
Fairness ==
  /\ \A w \in WsIds :
       /\ WF_vars(\E a \in BOOLEAN : SpawnPing(w, a))
       /\ WF_vars(\E o \in ChatOutcomes : SpawnSynth(w, o))
       /\ WF_vars(\E b \in BOOLEAN : SpawnBuild(w, b))
       /\ WF_vars(\E o \in {"ok", "create_failed", "start_failed"} : SpawnCreate(w, o))
       /\ WF_vars(SpawnRespond(w))
       /\ WF_vars(\E r \in BOOLEAN : RunnerWritePrompt(w, r))
       /\ WF_vars(\E c \in {0, 1} : RunnerExecEnd(w, c))
       /\ WF_vars(RunnerExecRaise(w))
       /\ WF_vars(RunnerAfterExec(w))
       /\ WF_vars(RunnerGrace(w))
       /\ WF_vars(RunnerCleanup(w))
       /\ WF_vars(DestroyReturn(w))
       /\ WF_vars(\E u \in BOOLEAN : DestroyRespond(w, u))
  /\ WF_vars(Tick)

FairSpec == Spec /\ Fairness

WebhookStep == \E req \in GithubRequests : WebhookGithub(req)

\* the event integrator next to one workspace's spawn and runner
WebhookNext ==
  \/ SpawnStep(MaxWs)
  \/ RunnerStep
  \/ WebhookStep

WebhookSpec == Init /\ [][WebhookNext]_vars

\* runs and re-runs for the same issues while the provider, which knows the
\* secret, reports what happens to their pull requests
MergeNext ==
  \/ SpawnStep(MaxReruns)
  \/ RunnerStep
  \/ \E req \in VerifiedRequests : WebhookGithub(req)

\* the state a first run of issue 1 leaves behind: the agent printed its pull
\* request, exited with code 0, and the runner recorded the contribution and
\* removed the container (a state RerunSpec reaches)
AfterFirstRun ==
  /\ now = 1
  /\ issues = [i \in Issues |-> IF i = 1 THEN "pr_open" ELSE "open"]
  /\ ws = << [issue_id |-> 1, agent_run_id |-> 1, container_id |-> 1,
              status |-> "completed", branch_name |-> "fix/issue-N",
              expires_at |-> 2, destroyed_at |-> 1, error_message |-> NoText,
              pr_url |-> PrUrl] >>
  /\ contributions = << [agent_run_id |-> 1, issue_id |-> 1, pr_url |-> PrUrl,
                         branch_name |-> "fix/issue-N", status |-> "pr_open"] >>
  /\ logs = [w \in WsIds |->
               IF w = 1
                 THEN << [stream |-> "stdout", line |-> "[System] Starting OpenCode"],
                         [stream |-> "stdout", line |-> PrUrl],
                         [stream |-> "stdout", line |-> "[System] OpenCode execution completed"],
                         [stream |-> "stdout", line |-> "[System] Waiting 60 seconds"],
                         [stream |-> "stdout", line |-> "[System] Container destroyed successfully"] >>
                 ELSE <<>>]
  /\ containers = {}
  /\ spawnPc = [w \in WsIds |-> IF w = 1 THEN "done" ELSE "idle"]
  /\ spawnLocal = [w \in WsIds |-> InitLocal]
  /\ chatLog = [w \in WsIds |-> <<>>]
  /\ runnerPc = [w \in WsIds |-> IF w = 1 THEN "done" ELSE "idle"]
  /\ execResult = [w \in WsIds |-> IF w = 1 THEN 0 ELSE 1]
  /\ destroyReq = [w \in WsIds |-> "none"]
  /\ repoEnvs = Issues
  /\ webhooks = <<>>
  /\ extractPc = [i \in Issues |-> "idle"]
  /\ extractLocal = [i \in Issues |-> NoText]
  /\ response = NoResponse
  /\ lineBuffer = [w \in WsIds |-> {}]
  /\ lastLogId = [w \in WsIds |-> 0]
  /\ workspaceLogs = [w \in WsIds |-> <<>>]
  /\ logsReq = [w \in WsIds |-> NoLogsReq]
  /\ agentPc = [w \in WsIds |-> "idle"]
  /\ agentExit = [w \in WsIds |-> 1]
  /\ openPr = [i \in Issues |-> NoText]
  /\ issueBody = [i \in Issues |-> DefaultBody]
  /\ aiFixPrompt = [i \in Issues |-> <<>>]
  /\ promptFile = [w \in WsIds |->
                     IF w = 1 THEN HeredocWrite(BuildPrompt(InitLocal)) ELSE NoPromptFile]
  /\ daemonCall = NoCall
  /\ buildStream = NoBuild
  /\ execStream = NoExec
  /\ DOCKER_SOCKET_PATHS = NotLoaded
  /\ dockerSocketPath = NoPath
  /\ socketResult = NoPath
  /\ currentContext = NoPath
  /\ socketFiles = {}
  /\ config = InitConfig(NoConfig)
  /\ startup = [runs |-> 1, found |-> NoConfig]
  /\ lineStream = NoStream
  /\ conn = NoConn
  /\ handler = [h \in 1..MaxSpawns |-> NoHandler]

MergeSpec == AfterFirstRun /\ [][MergeNext]_vars

ExtractStep ==
  \/ \E i \in Issues : ExtractBegin(i)
  \/ \E i \in Issues, ok \in BOOLEAN, state \in ScrapedStates : ExtractScrapeIssue(i, ok, state)
  \/ \E i \in Issues, ok \in BOOLEAN, parsed \in BOOLEAN : ExtractScrapeRepo(i, ok, parsed)
  \/ \E i \in Issues, ok \in BOOLEAN : ExtractPrompt(i, ok)

\* every writer of issues.status: extract, claim, the UI's claim of a fix, one
\* workspace's spawn and runner, and the provider's pull_request events
IssueNext ==
  \/ ExtractStep
  \/ \E i \in Issues : Claim(i)
  \/ \E i \in Issues : PatchFixing(i)
  \/ SpawnStep(MaxWs)
  \/ RunnerStep
  \/ \E req \in {r \in VerifiedRequests : r.event = "pull_request"} : WebhookGithub(req)

IssueSpec == Init /\ [][IssueNext]_vars

ReaderStep ==
  \/ \E w \in WsIds : ReaderCall(w)
  \/ \E w \in WsIds : ReaderReceive(w)

\* one workspace's spawn and runner, an agent whose output may stop in the
\* middle of a line, and a client that polls the logs
LogNext ==
  \/ SpawnStep(MaxWs)
  \/ RunnerStep
  \/ \E w \in WsIds, stream \in {"stdout", "stderr"} : RunnerChunk(w, stream)
  \/ ReaderStep

LogSpec == Init /\ [][LogNext]_vars

\* runs and re-runs while pull requests appear at the provider
BranchNext ==
  \/ \E i \in Issues : PrOpened(i, "patch-1")
  \/ SpawnStep(MaxReruns)
  \/ RunnerStep

BranchSpec == Init /\ [][BranchNext]_vars

\* a re-run after a first run has recorded its branch, for an issue that
\* extract may have given a stored fix prompt
PromptNext ==
  \/ ExtractStep
  \/ SpawnStep(MaxReruns)
  \/ RunnerStep

PromptSpec == AfterFirstRun /\ [][PromptNext]_vars

\* one workspace's spawn and runner for an issue whose body is edited
HeredocNext ==
  \/ \E i \in Issues, body \in Bodies : PatchIssueBody(i, body)
  \/ SpawnStep(MaxWs)
  \/ RunnerStep

HeredocSpec == Init /\ [][HeredocNext]_vars

\* the exec decoder on the streams the daemon sends for a started exec, read
\* in chunks of any size
ExecNext ==
  \/ \E frames \in FrameSeqs : ExecStart(200, frames)
  \/ \E n \in 1..MaxWireLen : ExecRead(n)
  \/ ExecEnd

ExecSpec == Init /\ [][ExecNext]_vars

\* the build client on the responses the daemon sends for a build, read in
\* chunks of any size
BuildNext ==
  \/ \E msgs \in BuildMsgSeqs : BuildStart(200, msgs)
  \/ \E n \in 1..(3 * MaxBuildLines) : BuildRead(n)
  \/ BuildEnd

BuildSpec == Init /\ [][BuildNext]_vars

\* the daemon client on responses with an error status: requests made with
\* dockerRequest, a build and an exec start
DaemonNext ==
  \/ \E op \in DaemonOps, status \in DaemonStatuses, message \in DaemonMessages :
       DockerRequest(op, status, message)
  \/ \E status \in DaemonStatuses \ {200} : BuildStart(status, <<>>)
  \/ \E n \in 1..(3 * MaxBuildLines) : BuildRead(n)
  \/ BuildEnd
  \/ \E status \in DaemonStatuses \ {200} : ExecStart(status, <<>>)
  \/ \E n \in 1..MaxWireLen : ExecRead(n)
  \/ ExecEnd

DaemonSpec == Init /\ [][DaemonNext]_vars

AgentStep ==
  \/ \E w \in WsIds : AgentSpawnReturned(w)
  \/ \E w \in WsIds, code \in {0, 1} : AgentExecEnd(w, code)
  \/ \E w \in WsIds : AgentPatchWorkspace(w)
  \/ \E w \in WsIds : AgentPatchIssue(w)
  \/ \E w \in WsIds : AgentDestroy(w)

\* the polling agent process next to the server: it claims an open issue,
\* spawns through the endpoint, and then acts on the workspace it was given
\* while the server's runner acts on it too
AgentNext ==
  \/ \E i \in Issues : PatchFixing(i)
  \/ SpawnStep(MaxWs)
  \/ RunnerStep
  \/ AgentStep
  \/ \E w \in WsIds : DestroyReturn(w)
  \/ \E w \in WsIds : DestroyRespond(w, FALSE)

AgentSpec == Init /\ [][AgentNext]_vars

\* one workspace's spawn and runner for an agent that prints several lines
OutputNext ==
  \/ SpawnStep(MaxWs)
  \/ RunnerStep
  \/ \E w \in WsIds, stream \in {"stdout", "stderr"}, line \in OutputLines :
       RunnerOutput(w, stream, line)

OutputSpec == Init /\ [][OutputNext]_vars

\* the daemon client resolving its socket on a host whose environment,
\* context and sockets vary
SocketNext ==
  \/ \E dockerHost \in DockerHosts : LoadModule(dockerHost)
  \/ \E host \in ContextHosts : UseContext(host)
  \/ \E files \in SUBSET SocketPaths : SocketChange(files)
  \/ GetDockerSocketPath
  \/ CloseDockerClient

SocketSpec == Init /\ [][SocketNext]_vars

\* server starts on a store whose config table clients change
StoreNext ==
  \/ DbInit
  \/ \E key \in ConfigKeys, value \in ConfigValues : PutConfig(key, value)
  \/ \E key \in ConfigKeys : DeleteConfig(key)

StoreSpec == Init /\ [][StoreNext]_vars

\* a line-buffered stream fed a byte stream in chunks of any size
StreamNext ==
  \/ \E bytes \in ByteStreams : StreamStart(bytes)
  \/ \E n \in 1..(2 * MaxStreamChars) : StreamWrite(n)
  \/ StreamFlush

StreamSpec == Init /\ [][StreamNext]_vars

\* a re-run for an issue whose first run opened a pull request, while the
\* provider, which knows the secret, sends pull_request events in any order
EventNext ==
  \/ SpawnStep(MaxReruns)
  \/ RunnerStep
  \/ \E req \in {r \in VerifiedRequests : r.event = "pull_request"} : WebhookEvent(req)

EventSpec == AfterFirstRun /\ [][EventNext]_vars

\* concurrent spawn requests and their runners on the server's connection
ConnNext ==
  \/ \E h \in 1..MaxSpawns : ConnSpawnInsert(h)
  \/ \E h \in 1..MaxSpawns, ok \in BOOLEAN : ConnSpawnUpdate(h, ok)
  \/ \E h \in 1..MaxSpawns : ConnRunnerLog(h)

ConnSpec == Init /\ [][ConnNext]_vars

\* spawn handlers alone
SpawnNext == SpawnStep(MaxWs)

SpawnSpec == Init /\ [][SpawnNext]_vars

\* spawns and runners alone: runs and re-runs for the same issues
RerunNext ==
  \/ SpawnStep(MaxReruns)
  \/ RunnerStep

RerunSpec == Init /\ [][RerunNext]_vars

\* ================================================================ claims
Rows == 1..Len(ws)

\* C1 (as claimed): a workspace whose status is completed, build_failed,
\* container_crashed, timeout, cancelled or destroyed keeps that status in
\* every later step of spawn, the runner and destroy.
C1_TerminalAbsorbing ==
  [][\A w \in Rows : ws[w].status \in TerminalStatuses => ws'[w].status = ws[w].status]_vars

\* C2 (as claimed): the step in which the runner handles exit code 0 leaves
\* the workspace completed, a contribution row for the workspace's issue in
\* the table and the issue's status pr_open, whatever the spawn request was.
C2_ExitZeroRecords ==
  [][\A w \in Rows :
       (runnerPc[w] = "inspected" /\ execResult[w] = 0 /\ runnerPc'[w] = "grace")
         => /\ ws'[w].status = "completed"
            /\ ContribIdsOf(contributions', ws[w].issue_id) # {}
            /\ issues'[ws[w].issue_id] = "pr_open"]_vars

\* C3: in every state reached by spawns, re-runs and runner completions, in
\* any interleaving, each issue has at most one contribution row.
C3_OneContributionPerIssue ==
  \A i \in Issues : Cardinality(ContribIdsOf(contributions, i)) <= 1

\* C3 witness: two runners of the same issue, both spawned before the issue
\* had a contribution (so they ran concurrently), have both completed with an
\* agent run, and the issue has its one contribution row.
C3_Witness ==
  \E v, w \in Rows :
    /\ v # w
    /\ ws[v].issue_id = ws[w].issue_id
    /\ ws[v].status = "completed" /\ ws[w].status = "completed"
    /\ RecordsContribution(ws[v]) /\ RecordsContribution(ws[w])
    /\ spawnLocal[v].existingBranchName = NoText
    /\ spawnLocal[w].existingBranchName = NoText
    /\ runnerPc[v] \in {"grace", "cleanup", "done"}
    /\ runnerPc[w] \in {"grace", "cleanup", "done"}
    /\ Cardinality(ContribIdsOf(contributions, ws[v].issue_id)) = 1

\* C4 (as claimed): a destroy request that succeeds on a workspace that was
\* building or running leaves it cancelled, with no container at the daemon.
C4_CancelLeavesCancelled ==
  [][\A w \in Rows :
       (destroyReq[w] # "success" /\ destroyReq'[w] = "success"
          /\ ws[w].status \in {"building", "running"})
         => (ws'[w].status = "cancelled" /\ w \notin containers')]_vars

\* C5 (as claimed): a destroy request on a workspace that is already
\* destroyed succeeds and changes no field of the row, destroyed_at included.
C5_DestroyIdempotent ==
  [][\A w \in Rows :
       (ws[w].status = "destroyed" /\ destroyReq[w] = "none" /\ destroyReq'[w] # "none")
         => (destroyReq'[w] = "success" /\ ws'[w] = ws[w])]_vars

\* C6 (as claimed): once destroy has marked a workspace that has a container
\* destroyed, no step of its runner changes the workspace's status, the
\* contributions or the issues.
C6_RunnerYieldsToCancel ==
  [][\A w \in Rows :
       (ws[w].status = "destroyed" /\ ws[w].container_id # NoId
          /\ runnerPc'[w] # runnerPc[w])
         => /\ ws'[w].status = "destroyed"
            /\ contributions' = contributions
            /\ issues' = issues]_vars

\* C7 (as claimed): a workspace that is running after its expires_at
\* eventually has status timeout.
C7_TimeoutEnforced ==
  \A w \in WsIds :
    []((w \in Rows /\ ws[w].status = "running" /\ now > ws[w].expires_at)
         => <>(w \in Rows /\ ws[w].status = "timeout"))

\* C8 (as claimed): once the runner has ended the agent exec (exit code or
\* exception), eventually the container is gone and destroyed_at is stamped.
C8_CleanupAfterExec ==
  \A w \in WsIds :
    [](runnerPc[w] \in {"grace", "cleanup", "done"}
         => <>(w \notin containers /\ w \in Rows /\ ws[w].destroyed_at # NoTime))

\* C9 (as claimed): when the image build fails on the first or second attempt,
\* spawn goes back to recipe synthesis with the build error as lastBuildError.
C9_BuildFailureRetried ==
  [][\A w \in Rows :
       (spawnPc[w] = "build" /\ spawnPc'[w] # "create" /\ spawnPc'[w] # "build"
          /\ spawnLocal[w].buildAttempt < MAX_BUILD_RETRIES)
         => (spawnPc'[w] = "synth" /\ spawnLocal'[w].lastBuildError # NoText)]_vars

\* the message of the last call before call k that raised, or null
LastRaised(calls, k) ==
  LET js == {j \in 1..(k - 1) : calls[j].outcome.kind = "throw"}
  IN IF js = {} THEN NoText
     ELSE calls[CHOOSE j \in js : \A h \in js : h <= j].outcome.msg

\* C10: one spawn calls the text-completion RPC at most MAX_BUILD_RETRIES
\* times; the prompt of each call carries the message of the latest earlier
\* call that raised, and no error text when no earlier call raised (so the
\* first call carries none).
C10_PromptCarriesLastError ==
  \A w \in WsIds :
    /\ Len(chatLog[w]) <= MAX_BUILD_RETRIES
    /\ \A k \in 1..Len(chatLog[w]) : chatLog[w][k].err = LastRaised(chatLog[w], k)

\* C10 witness: a third call whose prompt carries the second call's error,
\* which differs from the first call's error.
C10_Witness ==
  \E w \in WsIds :
    /\ Len(chatLog[w]) = 3
    /\ chatLog[w][1].outcome = [kind |-> "throw", msg |-> "e1"]
    /\ chatLog[w][2].outcome = [kind |-> "throw", msg |-> "e2"]
    /\ chatLog[w][3].err = "e2"

\* C11 (as claimed): when a spawn handler that inserted its row finishes, by
\* returning or by raising, the row is running, or it is build_failed or
\* container_crashed with a structured error_message; it is not building.
C11_SpawnNeverLeavesBuilding ==
  [][\A w \in Rows :
       (spawnPc[w] # "done" /\ spawnPc'[w] = "done")
         => \/ ws'[w].status = "running"
            \/ /\ ws'[w].status \in {"build_failed", "container_crashed"}
               /\ ws'[w].error_message # NoText]_vars

\* C12 (as claimed): a spawn inserts a workspace row only for an issue whose
\* row and whose repository's environment row exist.
C12_SpawnNeedsEnvironment ==
  [][Len(ws') > Len(ws)
       => /\ ws'[Len(ws')].issue_id \in DOMAIN issues
          /\ ws'[Len(ws')].issue_id \in repoEnvs]_vars

SameTables(db) ==
  /\ db.issues = issues
  /\ db.contributions = contributions
  /\ db.webhooks = webhooks

\* C13: in every reachable state of the tables, a request whose signature
\* header is missing or differs from the expected one (a cut header included)
\* is answered 401, a request that arrives while no secret is configured is
\* answered 500, and both leave issues, contributions and webhooks as they were.
C13_BadSignatureRejected ==
  \A req \in GithubRequests :
    LET r == PostGithub(Tables, req)
    IN /\ (req.secret # NoText /\ req.signature # ExpectedSignature(req))
            => (r.status = 401 /\ SameTables(r.db))
       /\ req.secret = NoText => (r.status = 500 /\ SameTables(r.db))

\* C13 witness: a request was answered 401 while the tables held a
\* contribution with a pull request that an accepted event would have changed.
C13_Witness ==
  /\ response = [route |-> "github", status |-> 401]
  /\ \E c \in 1..Len(contributions) :
       contributions[c].pr_url = PrUrl /\ contributions[c].status = "pr_open"

\* C14 (as claimed): the handler answers a request with the expected
\* signature 200 and adds exactly one row to webhooks when the body parses as
\* JSON, whatever its event header and payload, and answers 400 when the body
\* does not parse.
C14_ValidRequestStored ==
  [][\A req \in GithubRequests :
       (req.secret # NoText /\ req.signature = ExpectedSignature(req) /\ WebhookGithub(req))
         => IF JSONparse(req.body).ok
              THEN response'.status = 200 /\ Len(webhooks') = Len(webhooks) + 1
              ELSE response'.status = 400]_vars

\* verified pull_request events that carry a pull_request object
PullRequestEvents ==
  {req \in GithubRequests :
     /\ req.secret # NoText /\ req.signature = ExpectedSignature(req)
     /\ req.event = "pull_request"
     /\ JSONparse(req.body).ok
     /\ req.body.value.pull_request # NoPullRequest}

\* ids of the contributions whose pr_url or pr_number is the event's
Matching(pr) ==
  {c \in 1..Len(contributions) :
     /\ contributions[c].pr_url # NoText
     /\ \/ contributions[c].pr_url = pr.html_url
        \/ PrNumberOf(contributions[c].pr_url) = pr.number}

\* C15: in every reachable state of the tables, a verified pull_request event
\* that matches a contribution sets the (first) matching contribution to merged
\* and its issue to fixed when action = closed and merged, sets it to closed
\* and changes no issue when action = closed and not merged, and changes no
\* contribution and no issue for any other action; an event that matches no
\* contribution is stored and changes no contribution and no issue.
C15_PullRequestEventApplied ==
  \A req \in PullRequestEvents :
    LET payload == req.body.value
        pr == payload.pull_request
        r == PostGithub(Tables, req)
        ms == Matching(pr)
    IN IF ms = {}
         THEN /\ r.db.issues = issues /\ r.db.contributions = contributions
              /\ Len(r.db.webhooks) = Len(webhooks) + 1
         ELSE LET c == CHOOSE c \in ms : \A d \in ms : c <= d
              IN CASE payload.action = "closed" /\ pr.merged ->
                        /\ r.db.contributions = [contributions EXCEPT ![c].status = "merged"]
                        /\ r.db.issues = [issues EXCEPT ![contributions[c].issue_id] = "fixed"]
                   [] payload.action = "closed" /\ ~pr.merged ->
                        /\ r.db.contributions = [contributions EXCEPT ![c].status = "closed"]
                        /\ r.db.issues = issues
                   [] OTHER ->
                        /\ r.db.contributions = contributions
                        /\ r.db.issues = issues

\* C15 witness: a verified event was applied: a contribution with a pull
\* request is closed while its issue, which the runner set, is still pr_open.
C15_Witness ==
  /\ response = [route |-> "github", status |-> 200]
  /\ webhooks # <<>>
  /\ \E c \in 1..Len(contributions) :
       /\ contributions[c].pr_url = PrUrl
       /\ contributions[c].status = "closed"
       /\ issues[contributions[c].issue_id] = "pr_open"

\* C16 (as claimed): once an issue is fixed, no webhook event, spawn or runner
\* step changes its status.
C16_FixedNeverReverts ==
  [][\A i \in Issues : issues[i] = "fixed" => issues'[i] = "fixed"]_vars

\* the edges of the status DAG of an issue
DagEdges ==
  {<<"pending", "extracting">>, <<"extracting", "extracted">>, <<"extracting", "open">>,
   <<"extracting", "error">>, <<"extracted", "fixing">>, <<"open", "fixing">>,
   <<"fixing", "pr_open">>, <<"fixing", "error">>, <<"pr_open", "fixed">>}

\* C17 (as claimed): every change of an issue's status by extract, claim, the
\* runner or the event integrator follows an edge of the DAG.
C17_StatusFollowsDag ==
  [][\A i \in Issues : issues'[i] # issues[i] => <<issues[i], issues'[i]>> \in DagEdges]_vars

IssueStatuses ==
  {"pending", "extracting", "extracted", "open", "fixing", "pr_open", "fixed", "error"}

\* C18 (as claimed): the status of every issue is always one of pending,
\* extracting, extracted, open, fixing, pr_open, fixed, error.
C18_StatusInDomain == \A i \in Issues : issues[i] \in IssueStatuses

\* the ids m+1, ..., n in order
IdRange(m, n) == [k \in 1..(n - m) |-> m + k]

\* C19: whatever the interleaving of the reader's calls with the runner's
\* appends, the rows the reader has received are the rows 1..lastLogId of the
\* workspace, each once and in increasing id order, and a response on its way
\* holds exactly the rows after lastLogId that existed when it was computed,
\* in increasing id order.
C19_ReaderSeesEachRowOnce ==
  \A w \in WsIds :
    /\ lastLogId[w] <= Len(logs[w])
    /\ workspaceLogs[w] = IdRange(0, lastLogId[w])
    /\ logsReq[w].pending =>
         \E n \in lastLogId[w]..Len(logs[w]) : logsReq[w].rows = IdRange(lastLogId[w], n)

\* C19 witness: the reader, which already holds rows of an earlier response,
\* has a response with new rows on its way while the runner has appended
\* further rows since.
C19_Witness ==
  \E w \in WsIds :
    /\ lastLogId[w] > 0
    /\ logsReq[w].pending
    /\ Len(logsReq[w].rows) > 0
    /\ Len(logs[w]) > logsReq[w].rows[Len(logsReq[w].rows)]

\* C20 (as claimed): once the runner has written completed or
\* container_crashed, no further log row of the workspace is committed, and
\* when the runner writes either status no line buffer still holds output.
C20_LogsCompleteAtTerminalStatus ==
  [][\A w \in Rows :
       /\ ws[w].status \in {"completed", "container_crashed"} => logs'[w] = logs[w]
       /\ (ws'[w].status \in {"completed", "container_crashed"} /\ ws'[w].status # ws[w].status)
            => lineBuffer'[w] = {}]_vars

\* C21: in every state reached by spawn, the runner and destroy, a workspace
\* whose status is running has a container_id and a workspace whose status is
\* build_failed has none.
C21_ContainerIdMatchesStatus ==
  \A w \in Rows :
    /\ ws[w].status = "running" => ws[w].container_id # NoId
    /\ ws[w].status = "build_failed" => ws[w].container_id = NoId

\* C21 witness: a workspace that a destroy request marked destroyed while it
\* was building is running with its container after the spawn went on.
C21_Witness ==
  \E w \in Rows :
    /\ ws[w].status = "running"
    /\ ws[w].container_id # NoId
    /\ ws[w].destroyed_at # NoTime

\* C22 (as claimed): a workspace that has a container_id has status running,
\* completed, container_crashed or timeout; a destroyed workspace has none.
C22_ContainerIdOnlyWhileLive ==
  \A w \in Rows :
    ws[w].container_id # NoId
      => ws[w].status \in {"running", "completed", "container_crashed", "timeout"}

\* C23 (as claimed): in every state reached by spawn, the runner and destroy,
\* a workspace whose destroyed_at is set has a terminal status.
C23_DestroyedAtImpliesTerminal ==
  \A w \in Rows : ws[w].destroyed_at # NoTime => ws[w].status \in TerminalStatuses

\* the runner of a workspace has been started and has not returned
RunnerInFlight(w) == runnerPc[w] \notin {"idle", "done"}

\* C24 (as claimed): while the runner of a workspace is in flight, no other
\* component executes the coding agent in the workspace's container, and
\* every step that writes the workspace's status or removes its container is
\* a step of that runner.
C24_RunnerOwnsWorkspace ==
  [][\A w \in Rows :
       RunnerInFlight(w)
         => /\ agentPc'[w] # "exec"
            /\ ws'[w].status # ws[w].status => runnerPc'[w] # runnerPc[w]
            /\ (w \in containers /\ w \notin containers') => runnerPc'[w] # runnerPc[w]]_vars

\* the branches an issue already has: that of its latest contribution with a
\* branch name, and the head branch of its open pull request
PriorBranches(i) == {ExistingBranch(i), openPr[i]} \ {NoText}

\* C25 (as claimed): the row a spawn inserts for an issue that has an open
\* pull request or a prior contribution with a branch name carries a prior
\* branch name; it carries fix/issue-<N> only when the issue has neither.
C25_SpawnReusesPriorBranch ==
  [][Len(ws') > Len(ws)
       => LET row == ws'[Len(ws')]
          IN IF PriorBranches(row.issue_id) # {}
               THEN row.branch_name \in PriorBranches(row.issue_id)
               ELSE row.branch_name = "fix/issue-N"]_vars

\* the prompt has the line
HasLine(prompt, line) == \E k \in 1..Len(prompt) : prompt[k] = line

\* C26 (as claimed): the prompt of a runner that was started for an issue
\* with a prior branch tells the agent to check out the existing branch and
\* not to create a new pull request, and does not tell it to create a branch
\* or a pull request, whether or not the issue has a stored ai_fix_prompt.
C26_RerunPromptReusesBranch ==
  \A w \in Rows :
    (runnerPc[w] # "idle" /\ spawnLocal[w].existingBranchName # NoText)
      => LET prompt == BuildPrompt(spawnLocal[w])
         IN /\ HasLine(prompt, ReuseBranchLine)
            /\ HasLine(prompt, NoNewPrLine)
            /\ ~HasLine(prompt, CreateBranchLine)
            /\ ~HasLine(prompt, CreatePrLine)

\* C27 (as claimed): when the runner goes on from the write of the prompt to
\* the exec of the agent, the file in the container holds exactly the prompt,
\* no line of the prompt was run as a command (of the lines the script ran,
\* only the last, its closing delimiter, is not a line of the prompt), and
\* the write exited with code 0.
C27_PromptWrittenVerbatim ==
  [][\A w \in Rows :
       (runnerPc[w] = "write_prompt" /\ runnerPc'[w] = "exec")
         => /\ promptFile'[w].file = BuildPrompt(spawnLocal[w])
            /\ Len(promptFile'[w].ran) <= 1
            /\ promptFile'[w].exitCode = 0]_vars

\* the payloads of the frames of a type, concatenated
RECURSIVE PayloadsOf(_, _)
PayloadsOf(fs, type) ==
  IF fs = <<>> THEN <<>>
  ELSE (IF Head(fs).type = type THEN Head(fs).payload ELSE <<>>) \o PayloadsOf(Tail(fs), type)

\* C28 (as claimed): when the exec stream has ended, whatever the reads were,
\* the stdout sink has received exactly the payloads of the type-1 frames and
\* the stderr sink exactly those of the type-2 frames.
C28_DecoderDeliversPayloads ==
  (execStream.pc = "ended" /\ execStream.status = 200)
    => /\ execStream.stdout = PayloadsOf(execStream.frames, 1)
       /\ execStream.stderr = PayloadsOf(execStream.frames, 2)

\* C29 (as claimed): when the response of a build has a line with
\* errorDetail, whatever else the line and the response hold and however the
\* response was read, the build fails with the message of an errorDetail line.
C29_BuildErrorDetailFails ==
  (buildStream.pc = "ended" /\ buildStream.status = 200
     /\ \E j \in 1..Len(buildStream.sent) : buildStream.sent[j].errorDetail.present)
    => /\ buildStream.outcome = "rejected"
       /\ \E j \in 1..Len(buildStream.sent) :
            /\ buildStream.sent[j].errorDetail.present
            /\ buildStream.error = buildStream.sent[j].errorDetail.message

\* C30 (as claimed): a request made with dockerRequest, a build and an exec
\* start whose response has a status of 400 or more fail, the first two with
\* the message of the response body.
C30_ErrorStatusFails ==
  /\ (daemonCall.status >= 400 /\ daemonCall.message # NoText)
       => (daemonCall.outcome = "rejected" /\ daemonCall.error = daemonCall.message)
  /\ (buildStream.pc = "ended" /\ buildStream.status >= 400)
       => (buildStream.outcome = "rejected" /\ buildStream.error = MessageMsg.message)
  /\ (execStream.pc = "ended" /\ execStream.status >= 400)
       => execStream.outcome = "rejected"


\* the URL the stdout rows of a log leave detected: that of the last stdout row
\* in which a pull-request URL is found, or null
LatestStdoutPrUrl(rows) ==
  LET hits == {k \in 1..Len(rows) : rows[k].stream = "stdout" /\ extractPrUrl(rows[k].line) # NoText}
  IN IF hits = {} THEN NoText
     ELSE extractPrUrl(rows[CHOOSE k \in hits : \A j \in hits : j <= k].line)

\* C31: after every committed line, a workspace's pr_url is the pull-request
\* URL found in the most recent stdout line that contains one, and null when
\* no stdout line contained one; stderr lines and lines without a match leave
\* pr_url as it is.
C31_PrUrlLatestWins ==
  \A w \in Rows : ws[w].pr_url = LatestStdoutPrUrl(logs[w])

\* a first stdout line with one URL, a later stdout line with another, then a
\* stderr line with the first URL: pr_url is the second URL
C31_Witness ==
  \E w \in Rows : \E a, b, c \in 1..Len(logs[w]) :
    /\ a < b /\ b < c
    /\ logs[w][a] = [stream |-> "stdout", line |-> PrUrl]
    /\ logs[w][b] = [stream |-> "stdout", line |-> TwoUrlsLine]
    /\ logs[w][c] = [stream |-> "stderr", line |-> PrUrl]
    /\ ws[w].pr_url = "https://github.com/o/r/pull/8"

\* the pull-request URLs found in the log lines of a workspace
PrUrlsInLogs(w) ==
  {extractPrUrl(logs[w][k].line) : k \in 1..Len(logs[w])} \ {NoText}

\* C32 (as claimed): GET /workspaces/{id}/pr answers with the workspace
\* column's URL and source workspace when the column is set; otherwise with a
\* URL found in the workspace's logs and source logs whenever any log line
\* contains one; otherwise with the URL of the issue's most recent
\* contribution that has one and source contribution; otherwise with nulls.
C32_PrFallbackOrder ==
  \A w \in Rows :
    LET r == GetPr(w)
    IN IF ws[w].pr_url # NoText
         THEN r = [pr_url |-> ws[w].pr_url, source |-> "workspace"]
       ELSE IF PrUrlsInLogs(w) # {}
         THEN r.source = "logs" /\ r.pr_url \in PrUrlsInLogs(w)
       ELSE IF ContributionPrUrl(ws[w].issue_id) # NoText
         THEN r = [pr_url |-> ContributionPrUrl(ws[w].issue_id), source |-> "contribution"]
       ELSE r = [pr_url |-> NoText, source |-> NoText]

\* the candidates in the order the claim gives: environment override with
\* unix:// stripped, the endpoint of the named context, the user's runtime
\* socket, the system socket
ClaimedCandidates ==
  (IF Len(DOCKER_SOCKET_PATHS.paths) = 3 THEN <<DOCKER_SOCKET_PATHS.paths[1]>> ELSE <<>>)
    \o (IF currentContext # NoPath THEN <<StripUnix(StripUnixSlashes(currentContext))>> ELSE <<>>)
    \o <<UserSocket, SystemSocket>>

\* C33 (as claimed): a call of getDockerSocketPath returns the cached path
\* when one is cached, and otherwise the first candidate that can be stat-ed
\* in the order environment override, context endpoint, user socket, system
\* socket (an error when none can).
C33_FirstStatablePath ==
  [][ (DOCKER_SOCKET_PATHS.loaded /\ socketResult' # socketResult)
        => LET found == Accessible(ClaimedCandidates, socketFiles)
           IN socketResult' = IF dockerSocketPath # NoPath THEN dockerSocketPath
                              ELSE IF found # <<>> THEN found[1]
                              ELSE SocketNotFound ]_vars

IsPrefixOf(a, b) == Len(a) <= Len(b) /\ a = SubSeq(b, 1, Len(a))

\* the lines of a byte stream: the segments of its text that are not blank;
\* the last segment is the fragment after the last newline
LinesOfStream(bytes) == split(toString(bytes))

\* C35 (as claimed): however the byte stream is split into chunks, onLine is
\* called with the same lines: before flush with complete, non-blank lines of
\* the stream, in order, and after flush with all its non-blank lines, the
\* trailing fragment once.
C35_LinesIndependentOfChunks ==
  LET all == LinesOfStream(lineStream.sent)
      complete == SubSeq(all, 1, Len(all) - 1)
  IN /\ lineStream.pc = "writing" => IsPrefixOf(lineStream.lines, EmitLines(complete))
     /\ lineStream.pc = "flushed" => lineStream.lines = EmitLines(all)

\* C36 (as claimed): through runner completions and verified events in any
\* order, an issue whose status is fixed has a contribution whose status is
\* merged, and no contribution that is closed or pr_open.
C36_FixedHasMergedContribution ==
  \A i \in Issues :
    issues[i] = "fixed"
      => /\ \E c \in ContribIdsOf(contributions, i) : contributions[c].status = "merged"
         /\ \A c \in ContribIdsOf(contributions, i) :
              contributions[c].status \notin {"closed", "pr_open"}

\* C37 (as claimed): a verified pull_request event changes only the
\* contribution, and the issue, of the pull request it refers to: a
\* contribution whose pull request has another URL (another repository's pull
\* request with the same number) and its issue are left as they are.
C37_EventTouchesOnlyItsPullRequest ==
  [][ \A req \in PullRequestEvents :
        WebhookGithub(req)
          => \A c \in 1..Len(contributions) :
               (contributions[c].pr_url # NoText
                  /\ contributions[c].pr_url # req.body.value.pull_request.html_url)
                 => /\ contributions'[c] = contributions[c]
                    /\ issues'[contributions[c].issue_id] = issues[contributions[c].issue_id] ]_vars

\* the issue is in fixing and a workspace spawned for it has failed
FixingWithFailedWorkspace(i) ==
  /\ issues[i] = "fixing"
  /\ \E w \in Rows : /\ ws[w].issue_id = i
                      /\ ws[w].status \in {"build_failed", "container_crashed"}

\* C38 (as claimed): an issue put into fixing does not stay there: once its
\* workspace is build_failed or container_crashed, the issue's status
\* eventually leaves fixing, by the steps the server takes on its own.
C38_FixingEventuallyLeft ==
  \A i \in Issues : FixingWithFailedWorkspace(i) ~> (issues[i] # "fixing")

\* C39 (as claimed): no container is leaked by spawn: every container that
\* exists at the daemon is recorded in the container_id of its workspace, so
\* that destroy can remove it.
C39_NoContainerLeak ==
  \A c \in containers : c \in Rows /\ ws[c].container_id = c

\* C40: under any interleaving of spawn requests and runners that insert log
\* rows, the row a spawn read back is the row it inserted (the row of its own
\* issue, and no other request holds it), the row it updated to running or
\* failed is that row, and its runner was handed that row.
C40_SpawnReadsBackOwnRow ==
  /\ \A h \in 1..MaxSpawns :
       handler[h].pc # "idle"
         => /\ handler[h].workspace \in 1..Len(conn.workspaces)
            /\ conn.workspaces[handler[h].workspace].issue_id = h
            /\ handler[h].pc = "running" => handler[h].runner = handler[h].workspace
  /\ \A k \in 1..Len(conn.workspaces) :
       LET h == conn.workspaces[k].issue_id
       IN conn.workspaces[k].status =
            CASE handler[h].pc = "awaiting" -> "building"
              [] handler[h].pc = "running" -> "running"
              [] OTHER -> "build_failed"
  /\ \A k \in 1..Len(conn.logs) :
       conn.logs[k] \in 1..Len(conn.workspaces)
         /\ handler[conn.workspaces[conn.logs[k]].issue_id].runner = conn.logs[k]

\* a spawn read its row back when the last insert before its own had been a
\* log row of another request's runner, whose id is not the id of its row
C40_Witness ==
  \E g, h \in 1..MaxSpawns :
    /\ g # h
    /\ handler[g].pc = "running"
    /\ handler[h].pc = "awaiting"
    /\ handler[h].workspace = Len(conn.workspaces)
    /\ conn.rowid = handler[h].workspace
    /\ Len(conn.logs) # handler[h].workspace
    /\ Len(conn.logs) >= 1
====
